---- MODULE Spec2Model ----
(***************************************************************************)
(* A model of the NTL compiler (ntl-lang): lexer, parser, scope analyzer,   *)
(* type inferer, code generator and driver, and of the runtime behaviour of *)
(* the JavaScript the code generator emits for channels, match and binary   *)
(* expressions.  Each component has its own variables and its own           *)
(* specification; a specification leaves the other components idle.         *)
(***************************************************************************)
EXTENDS Integers, Sequences, FiniteSets, TLC

VARIABLES chan, promises, sent, lexer, parser, scope, comp, match, binexp, fcache, select, spawn, immut, esm, ntlreq, assign, tunion, sim, decor, oplex, selch, unexp

chanVars == <<chan, promises, sent>>
nonLexVars == <<chan, promises, sent, parser, scope, comp, match, binexp, fcache, select, spawn, immut, esm, ntlreq, assign, tunion, sim, decor, oplex, selch, unexp>>
nonChanVars == <<lexer, parser, scope, comp, match, binexp, fcache, select, spawn, immut, esm, ntlreq, assign, tunion, sim, decor, oplex, selch, unexp>>
nonParserVars == <<chan, promises, sent, lexer, scope, comp, match, binexp, fcache, select, spawn, immut, esm, ntlreq, assign, tunion, sim, decor, oplex, selch, unexp>>
nonScopeVars == <<chan, promises, sent, lexer, parser, comp, match, binexp, fcache, select, spawn, immut, esm, ntlreq, assign, tunion, sim, decor, oplex, selch, unexp>>
nonCompVars == <<chan, promises, sent, lexer, parser, scope, match, binexp, fcache, select, spawn, immut, esm, ntlreq, assign, tunion, sim, decor, oplex, selch, unexp>>
nonMatchVars == <<chan, promises, sent, lexer, parser, scope, comp, binexp, fcache, select, spawn, immut, esm, ntlreq, assign, tunion, sim, decor, oplex, selch, unexp>>
nonExprVars == <<chan, promises, sent, lexer, parser, scope, comp, match, fcache, select, spawn, immut, esm, ntlreq, assign, tunion, sim, decor, oplex, selch, unexp>>
nonFileVars == <<chan, promises, sent, lexer, parser, scope, comp, match, binexp, select, spawn, immut, esm, ntlreq, assign, tunion, sim, decor, oplex, selch, unexp>>
nonSelectVars == <<chan, promises, sent, lexer, parser, scope, comp, match, binexp, fcache, spawn, immut, esm, ntlreq, assign, tunion, sim, decor, oplex, selch, unexp>>
nonSpawnVars == <<chan, promises, sent, lexer, parser, scope, comp, match, binexp, fcache, select, immut, esm, ntlreq, assign, tunion, sim, decor, oplex, selch, unexp>>
nonImmutVars == <<chan, promises, sent, lexer, parser, scope, comp, match, binexp, fcache, select, spawn, esm, ntlreq, assign, tunion, sim, decor, oplex, selch, unexp>>
nonEsmVars == <<chan, promises, sent, lexer, parser, scope, comp, match, binexp, fcache, select, spawn, immut, ntlreq, assign, tunion, sim, decor, oplex, selch, unexp>>
nonRequireVars == <<chan, promises, sent, lexer, parser, scope, comp, match, binexp, fcache, select, spawn, immut, esm, assign, tunion, sim, decor, oplex, selch, unexp>>
nonAssignVars == <<chan, promises, sent, lexer, parser, scope, comp, match, binexp, fcache, select, spawn, immut, esm, ntlreq, tunion, sim, decor, oplex, selch, unexp>>
nonUnionVars == <<chan, promises, sent, lexer, parser, scope, comp, match, binexp, fcache, select, spawn, immut, esm, ntlreq, assign, sim, decor, oplex, selch, unexp>>
nonSimilarVars == <<chan, promises, sent, lexer, parser, scope, comp, match, binexp, fcache, select, spawn, immut, esm, ntlreq, assign, tunion, decor, oplex, selch, unexp>>
nonDecorVars == <<chan, promises, sent, lexer, parser, scope, comp, match, binexp, fcache, select, spawn, immut, esm, ntlreq, assign, tunion, sim, oplex, selch, unexp>>
nonOpVars == <<chan, promises, sent, lexer, parser, scope, comp, match, binexp, fcache, select, spawn, immut, esm, ntlreq, assign, tunion, sim, decor, selch, unexp>>
nonSelChanVars == <<chan, promises, sent, lexer, parser, scope, comp, match, binexp, fcache, select, spawn, immut, esm, ntlreq, assign, tunion, sim, decor, oplex, unexp>>
nonGroupVars == <<chan, promises, sent, lexer, parser, scope, comp, match, binexp, fcache, select, spawn, immut, esm, ntlreq, assign, tunion, sim, decor, oplex, selch>>
vars == <<chan, promises, sent, lexer, parser, scope, comp, match, binexp, fcache, select, spawn, immut, esm, ntlreq, assign, tunion, sim, decor, oplex, selch, unexp>>

Null == "null"

Last(s) == s[Len(s)]
Front(s) == SubSeq(s, 1, Len(s) - 1)

\* the value of each component before it has run
ChanIdle == [queue |-> <<>>, listeners |-> <<>>]
LexIdle ==
  [source |-> <<>>, pos |-> 0, tokens |-> <<>>, mode |-> "top", status |-> "running",
   err |-> Null, q |-> Null, raw |-> <<>>, parts |-> <<>>, hex |-> <<>>]
ParserIdle ==
  [tokens |-> <<>>, pos |-> 0, stack |-> <<>>, status |-> "running", err |-> Null,
   iters |-> 0]
ScopeIdle == [ast |-> <<>>, errors |-> <<>>, done |-> FALSE]
CompIdle == [pc |-> "unused"]
MatchIdle == [pc |-> "unused"]
ExprIdle == [pc |-> "unused"]
GroupIdle == [pc |-> "unused"]
SelChanIdle == [pc |-> "unused"]
OpIdle == [pc |-> "unused"]
DecorIdle == [pc |-> "unused"]
SimilarIdle == [pc |-> "unused"]
UnionIdle == [pc |-> "unused"]
AssignIdle == [pc |-> "unused"]
RequireIdle == [pc |-> "unused"]
EsmIdle == [pc |-> "unused"]
ImmutIdle == [pc |-> "unused"]
SpawnIdle == [pc |-> "unused"]
SelectIdle == [pc |-> "unused"]
FileIdle == [pc |-> "unused"]

(***************************************************************************)
(* LEXER.  Lexer.tokenize over a source of one-character strings.  The      *)
(* characters are restricted to Alphabet; lexer.mode tells which loop of    *)
(* the lexer is running: "top" (tokenize), "str" (readString), "uhex" (the  *)
(* inner loop of a \u{...} escape), "tpl" (readTemplateLiteral).            *)
(***************************************************************************)
MaxSrcLen == 5
MaxStringLength == 3
DQ == "\""
BS == "\\"
BT == "BACKTICK"
NL == "\n"
NUL == "NUL"
Alphabet == {DQ, BS, BT, NL, "a", "u", "{", "}"}
HexDigits == {"a"}
IdentChars == {"a", "u"}
PUNCTUATION == {"{", "}"}

SeqsUpTo(S, n) == UNION {[1..k -> S] : k \in 0..n}
LexSources == SeqsUpTo(Alphabet, MaxSrcLen)

Token(type, value) == [type |-> type, value |-> value]

\* peek(o) { return this.source[this.pos + o] || '\0'; }   (pos is 0-based)
LexPeek(lx, o) ==
  IF lx.pos + o + 1 <= Len(lx.source) THEN lx.source[lx.pos + o + 1] ELSE NUL

\* advance() returns source[pos++], undefined past the end
LexAdvanceChar(lx) ==
  IF lx.pos + 1 <= Len(lx.source) THEN lx.source[lx.pos + 1] ELSE "undefined"

\* lexError(msg): throws an error with phase 'lex'
LexError(lx, msg) ==
  [lx EXCEPT !.status = "error", !.err = [phase |-> "lex", message |-> msg]]

\* an exception of the host that is not a lex diagnostic (RangeError)
LexHostThrow(lx, msg) ==
  [lx EXCEPT !.status = "error", !.err = [phase |-> "host", message |-> msg]]

\* constructor(source, filename): pos = 0, tokens = []
NewLexer(src) == [LexIdle EXCEPT !.source = src]

LexInit ==
  /\ lexer \in {NewLexer(src) : src \in LexSources}
  /\ chan = ChanIdle /\ promises = <<>> /\ sent = <<>>
  /\ parser = ParserIdle /\ scope = ScopeIdle /\ comp = CompIdle /\ match = MatchIdle /\ binexp = ExprIdle
  /\ fcache = FileIdle
  /\ select = SelectIdle
  /\ spawn = SpawnIdle
  /\ immut = ImmutIdle
  /\ esm = EsmIdle
  /\ ntlreq = RequireIdle
  /\ assign = AssignIdle
  /\ tunion = UnionIdle
  /\ sim = SimilarIdle
  /\ decor = DecorIdle
  /\ oplex = OpIdle
  /\ selch = SelChanIdle
  /\ unexp = GroupIdle

RECURSIVE SkipWhitespace(_, _)
\* skipWhitespace(): the position after blanks and newlines (no '/' or '#'
\* is in Alphabet, so no comment starts)
SkipWhitespace(src, pos) ==
  IF pos + 1 <= Len(src) /\ src[pos + 1] \in {" ", NL}
    THEN SkipWhitespace(src, pos + 1) ELSE pos

RECURSIVE IdentEnd(_, _)
\* readIdent(): the position after the identifier characters
IdentEnd(src, pos) ==
  IF pos + 1 <= Len(src) /\ src[pos + 1] \in IdentChars
    THEN IdentEnd(src, pos + 1) ELSE pos

\* One iteration of the while loop of tokenize(), or its exit.
TokenizeIter(lx) ==
  LET p == SkipWhitespace(lx.source, lx.pos)
      at == [lx EXCEPT !.pos = p]
      ch == LexPeek(at, 0)
  IN IF lx.pos >= Len(lx.source) \/ p >= Len(lx.source)
       THEN [at EXCEPT !.tokens = Append(@, Token("EOF", <<>>)), !.status = "done"]
     ELSE IF ch = DQ
       THEN [at EXCEPT !.pos = p + 1, !.mode = "str", !.q = DQ,
                       !.raw = <<>>, !.parts = <<>>]
     ELSE IF ch = BT
       THEN [at EXCEPT !.pos = p + 1, !.mode = "tpl", !.raw = <<>>, !.parts = <<>>]
     ELSE IF ch \in IdentChars
       THEN LET e == IdentEnd(lx.source, p)
            IN [at EXCEPT !.pos = e,
                  !.tokens = Append(@, Token("IDENTIFIER", SubSeq(lx.source, p + 1, e)))]
     ELSE IF ch \in PUNCTUATION
       THEN [at EXCEPT !.pos = p + 1, !.tokens = Append(@, Token("PUNCTUATION", <<ch>>))]
     ELSE LexError(at, "Unexpected character")

RECURSIVE EmbedEnd(_, _, _)
\* the depth-tracked capture of an embedded { ... } expression: the position
\* after its closing brace, or the end of input
EmbedEnd(src, pos, depth) ==
  IF pos >= Len(src) THEN pos
  ELSE LET c == src[pos + 1]
           d == IF c = "{" THEN depth + 1 ELSE IF c = "}" THEN depth - 1 ELSE depth
       IN IF d = 0 THEN pos + 1 ELSE EmbedEnd(src, pos + 1, d)

FlushRaw(lx) ==
  IF lx.raw # <<>> THEN Append(lx.parts, [kind |-> "str", value |-> lx.raw]) ELSE lx.parts

HasExprPart(parts) == \E i \in 1..Len(parts) : parts[i].kind = "expr"

\* the loop exit of readString(): the closing quote or 'Unterminated string'
ReadStringExit(lx) ==
  IF LexPeek(lx, 0) # lx.q
    THEN LexError(lx, "Unterminated string")
    ELSE LET tok == IF HasExprPart(lx.parts)
                      THEN Token("TEMPLATE", FlushRaw(lx))
                      ELSE Token("STRING", lx.raw)
         IN [lx EXCEPT !.pos = @ + 1, !.mode = "top", !.tokens = Append(@, tok)]

\* One iteration of the while loop of readString(q), or its exit.
ReadStringIter(lx) ==
  LET ch == LexPeek(lx, 0)
  IN IF ~(ch # lx.q /\ lx.pos < Len(lx.source)) THEN ReadStringExit(lx)
     ELSE IF ch = NL THEN LexError(lx, "Unterminated string")
     ELSE IF ch = BS
       THEN LET e == LexAdvanceChar([lx EXCEPT !.pos = @ + 1])
                after == [lx EXCEPT !.pos = @ + 2]
            IN IF e = "u"
                 THEN IF LexPeek(after, 0) = "{"
                        THEN [after EXCEPT !.pos = @ + 1, !.mode = "uhex", !.hex = <<>>]
                        ELSE [after EXCEPT !.pos = @ + 4, !.raw = Append(@, "\\uXXXX")]
                 ELSE [after EXCEPT !.raw = Append(@, e)]
     ELSE IF ch = "{"
       THEN LET e == EmbedEnd(lx.source, lx.pos + 1, 1)
                closed == e <= Len(lx.source) /\ e > lx.pos + 1 /\ lx.source[e] = "}"
                          /\ EmbedEnd(lx.source, lx.pos + 1, 1) = e
                expr == SubSeq(lx.source, lx.pos + 2, IF closed THEN e - 1 ELSE e)
            IN [lx EXCEPT !.pos = e, !.raw = <<>>,
                          !.parts = Append(FlushRaw(lx), [kind |-> "expr", source |-> expr])]
     ELSE [lx EXCEPT !.pos = @ + 1, !.raw = Append(@, ch)]

\* parseInt(hex, 16) is a number, and a code point String.fromCodePoint takes
ValidCodePoint(hex) == Len(hex) >= 1 /\ hex[1] \in HexDigits /\ Len(hex) <= 5

\* One iteration of  while (this.peek() !== '}') hex += this.advance();  or
\* its exit: advance past '}' and append String.fromCodePoint(parseInt(hex,16)).
\* The loop has no end-of-input test; the only thing that stops it past the
\* end is the host refusing to grow hex beyond its maximum string length
\* (MaxStringLength pieces here).
ReadUHexIter(lx) ==
  IF LexPeek(lx, 0) # "}"
    THEN IF Len(lx.hex) >= MaxStringLength
           THEN LexHostThrow(lx, "RangeError: Invalid string length")
           ELSE [lx EXCEPT !.pos = @ + 1, !.hex = Append(@, LexAdvanceChar(lx))]
  ELSE IF ValidCodePoint(lx.hex)
    THEN [lx EXCEPT !.pos = @ + 1, !.mode = "str", !.raw = Append(@, "\\u{X}")]
    ELSE LexHostThrow(lx, "RangeError: Invalid code point")

\* One iteration of the while loop of readTemplateLiteral(), or its exit
\* ('$' is not in Alphabet, so no ${ embedding starts).
ReadTemplateIter(lx) ==
  LET ch == LexPeek(lx, 0)
  IN IF ~(ch # BT /\ lx.pos < Len(lx.source))
       THEN IF ch # BT THEN LexError(lx, "Unterminated template literal")
            ELSE [lx EXCEPT !.pos = @ + 1, !.mode = "top",
                            !.tokens = Append(@, Token("TEMPLATE", FlushRaw(lx)))]
     ELSE IF ch = BS
       THEN [lx EXCEPT !.pos = @ + 2,
                       !.raw = @ \o <<BS, LexAdvanceChar([lx EXCEPT !.pos = @ + 1])>>]
     ELSE [lx EXCEPT !.pos = @ + 1, !.raw = Append(@, ch)]

LexRunning == lexer.status = "running"

TokenizeStep ==
  /\ LexRunning /\ lexer.mode = "top"
  /\ lexer' = TokenizeIter(lexer)
  /\ UNCHANGED nonLexVars

ReadStringStep ==
  /\ LexRunning /\ lexer.mode = "str"
  /\ lexer' = ReadStringIter(lexer)
  /\ UNCHANGED nonLexVars

ReadUHexStep ==
  /\ LexRunning /\ lexer.mode = "uhex"
  /\ lexer' = ReadUHexIter(lexer)
  /\ UNCHANGED nonLexVars

ReadTemplateStep ==
  /\ LexRunning /\ lexer.mode = "tpl"
  /\ lexer' = ReadTemplateIter(lexer)
  /\ UNCHANGED nonLexVars

LexNext == TokenizeStep \/ ReadStringStep \/ ReadUHexStep \/ ReadTemplateStep


(***************************************************************************)
(* PARSER.  Parser.parse over a token stream.  A token is represented by    *)
(* its kind: the keywords loop and class, an identifier, the punctuation    *)
(* { } ; ; reading past the last token gives EOF.  parser.stack holds the   *)
(* open constructs ("block" for parseBlock, "class" for the member loop of  *)
(* parseClassDecl); with an empty stack the loop of parse() runs.  One      *)
(* action is one iteration of the innermost loop; parser.iters counts the   *)
(* iterations made since the last token was consumed.                       *)
(***************************************************************************)
MaxTokens == 5
MaxIters == 2
EOF == "EOF"
TokenKinds == {"loop", "class", "id", "{", "}", ";"}
NameKinds == {"id", "loop", "class"}
TokenStreams == SeqsUpTo(TokenKinds, MaxTokens)

\* constructor(tokens, filename): pos = 0
NewParser(toks) == [ParserIdle EXCEPT !.tokens = toks]

ParserInit ==
  /\ parser \in {NewParser(toks) : toks \in TokenStreams}
  /\ chan = ChanIdle /\ promises = <<>> /\ sent = <<>>
  /\ lexer = LexIdle /\ scope = ScopeIdle /\ comp = CompIdle /\ match = MatchIdle /\ binexp = ExprIdle
  /\ fcache = FileIdle
  /\ select = SelectIdle
  /\ spawn = SpawnIdle
  /\ immut = ImmutIdle
  /\ esm = EsmIdle
  /\ ntlreq = RequireIdle
  /\ assign = AssignIdle
  /\ tunion = UnionIdle
  /\ sim = SimilarIdle
  /\ decor = DecorIdle
  /\ oplex = OpIdle
  /\ selch = SelChanIdle
  /\ unexp = GroupIdle

\* peek(o) { return this.tokens[this.pos+(o||0)] || {type: EOF} }
PPeek(ps, o) ==
  IF ps.pos + o + 1 <= Len(ps.tokens) THEN ps.tokens[ps.pos + o + 1] ELSE EOF

PAdvance(ps) == [ps EXCEPT !.pos = @ + 1]

\* parseError(msg): throws an error with phase 'parse'
ParseError(ps, msg) ==
  [ps EXCEPT !.status = "error", !.err = [phase |-> "parse", message |-> msg]]

\* eat(type, val): the token must be there, else a parse error
Eat(ps, kind) ==
  IF PPeek(ps, 0) = kind THEN PAdvance(ps) ELSE ParseError(ps, "Expected token")

\* eatSemi(): eatIf(PUNCTUATION, ';')
EatSemi(ps) == IF PPeek(ps, 0) = ";" THEN PAdvance(ps) ELSE ps

RECURSIVE ObjectLitProps(_)
\* the property loop of parseObjectLit() after its '{': a key is an identifier
\* or a keyword (a shorthand property here, no ':' or '(' can follow), any
\* other token, EOF included, is 'Expected key'
ObjectLitProps(ps) ==
  IF PPeek(ps, 0) = "}" THEN PAdvance(ps)
  ELSE IF PPeek(ps, 0) \in NameKinds THEN ObjectLitProps(PAdvance(ps))
  ELSE ParseError(ps, "Expected key")

\* parseBlock() up to its loop: eat '{' and open the block
OpenBlock(ps) ==
  LET e == Eat(ps, "{")
  IN IF e.status = "error" THEN e ELSE [e EXCEPT !.stack = Append(@, "block")]

\* parseClassDecl() up to its member loop: 'class', an optional name, '{'
OpenClass(ps) ==
  LET c == PAdvance(ps)
      n == IF PPeek(c, 0) \in NameKinds THEN PAdvance(c) ELSE c
      e == Eat(n, "{")
  IN IF e.status = "error" THEN e ELSE [e EXCEPT !.stack = Append(@, "class")]

\* parseStmt(): null at EOF; a loop or class statement opens its body; any
\* other statement is parsed whole by parseExprStatement()
ParseStmt(ps) ==
  LET a == EatSemi(ps)
      t == PPeek(a, 0)
  IN IF t = EOF THEN a
     ELSE IF t = "loop" THEN OpenBlock(PAdvance(a))
     ELSE IF t = "class" THEN OpenClass(a)
     ELSE IF t = "id" THEN EatSemi(PAdvance(a))
     ELSE IF t = "{"
       THEN LET o == ObjectLitProps(PAdvance(a))
            IN IF o.status = "error" THEN o ELSE EatSemi(o)
     ELSE ParseError(a, "Unexpected token")

\* the end of an open construct: eat its '}' and return to the enclosing loop
CloseConstruct(ps) == [PAdvance(ps) EXCEPT !.stack = Front(@)]

\* parseClassMember() for a field: its name is an identifier or keyword, or
\* 'init' when there is neither (nothing is consumed), then eatSemi()
ParseClassMember(ps) ==
  EatSemi(IF PPeek(ps, 0) \in NameKinds THEN PAdvance(ps) ELSE ps)

\* an iteration that consumed no token and ended nothing is counted
CountIter(old, new) ==
  IF new.pos = old.pos /\ new.status = "running"
    THEN [new EXCEPT !.iters = old.iters + 1]
    ELSE [new EXCEPT !.iters = 0]

\* parse(): while (!check(EOF)) { stmt = parseStmt(); ... } return Program
ParseIter(ps) ==
  IF PPeek(ps, 0) = EOF THEN [ps EXCEPT !.status = "done"]
  ELSE CountIter(ps, ParseStmt(ps))

\* parseBlock(): while (!check('}')) { s = parseStmt(); ... } eat('}')
ParseBlockIter(ps) ==
  IF PPeek(ps, 0) = "}" THEN CountIter(ps, CloseConstruct(ps))
  ELSE CountIter(ps, ParseStmt(ps))

\* parseClassDecl(): while (!check('}')) { eatSemi(); if (check('}')) break;
\*   members.push(parseClassMember()); } eat('}')
ParseClassIter(ps) ==
  IF PPeek(ps, 0) = "}" THEN CountIter(ps, CloseConstruct(ps))
  ELSE LET a == EatSemi(ps)
       IN IF PPeek(a, 0) = "}" THEN CountIter(ps, CloseConstruct(a))
          ELSE CountIter(ps, ParseClassMember(a))

ParserRunning == parser.status = "running" /\ parser.iters < MaxIters

ParseStep ==
  /\ ParserRunning /\ parser.stack = <<>>
  /\ parser' = ParseIter(parser)
  /\ UNCHANGED nonParserVars

ParseBlockStep ==
  /\ ParserRunning /\ parser.stack # <<>> /\ Last(parser.stack) = "block"
  /\ parser' = ParseBlockIter(parser)
  /\ UNCHANGED nonParserVars

ParseClassStep ==
  /\ ParserRunning /\ parser.stack # <<>> /\ Last(parser.stack) = "class"
  /\ parser' = ParseClassIter(parser)
  /\ UNCHANGED nonParserVars

ParserNext == ParseStep \/ ParseBlockStep \/ ParseClassStep

SpecParser == ParserInit /\ [][ParserNext]_vars

\* C7: the parser terminates on every finite token stream with an AST or a
\* parse diagnostic; a block or class body still open at end of file yields a
\* parse error.  Stated on the steps: every iteration of a parsing loop
\* consumes a token or ends the parse, and an iteration that starts at EOF
\* inside an open construct ends the parse with a parse-phase error.
C7_Claim ==
  [][ /\ (parser'.pos > parser.pos \/ parser'.status \in {"done", "error"})
      /\ (parser'.status = "error" => parser'.err.phase = "parse")
      /\ (PPeek(parser, 0) = EOF /\ parser.stack # <<>> =>
            parser'.status = "error") ]_vars

(***************************************************************************)
(* SCOPE ANALYZER.  ScopeAnalyzer.analyze over an AST.  A node is a record  *)
(* [type, name, ann, args, body]: ann is a type annotation, args holds the  *)
(* node's expression children (callee, property values, embedded            *)
(* expressions, init, test, object, left and right), body the statements of *)
(* its block.  The analyzer's scope chain is a stack of sets of declared    *)
(* names, the current scope last.                                           *)
(***************************************************************************)
MaxBlockLen == 2
MaxProgLen == 2
Names == {"f", "x"}
BUILTINS == {"console", "Object", "undefined"}

Node(type, name, args, body) ==
  [type |-> type, name |-> name, ann |-> Null, isConst |-> FALSE, args |-> args,
   body |-> body]
StringLit == Node("StringLit", Null, <<>>, <<>>)
\* object.prop, not computed
MemberExpr(object, prop) == Node("MemberExpr", prop, <<object>>, <<>>)
\* left = right
AssignExpr(left, right) == Node("AssignExpr", Null, <<left, right>>, <<>>)
\* var name: ann = init
TypedVarDecl(n, ann, init) == [Node("VarDecl", n, <<init>>, <<>>) EXCEPT !.ann = ann]
\* import { local } from "m": one specifier, no default import, no namespace
ImportDecl(local) == Node("ImportDecl", local, <<>>, <<>>)
NumberLit == Node("NumberLit", Null, <<>>, <<>>)
Identifier(n) == Node("Identifier", n, <<>>, <<>>)
CallExpr(callee, args) == Node("CallExpr", Null, <<callee>> \o args, <<>>)
\* an object literal whose properties all have kind 'prop'; args are the values
ObjectLit(values) == Node("ObjectLit", Null, values, <<>>)
\* a template literal; args are the expressions embedded in it
TemplateLit(embedded) == Node("TemplateLit", Null, embedded, <<>>)
ExprStmt(e) == Node("ExprStmt", Null, <<e>>, <<>>)
VarDecl(n, init) == Node("VarDecl", n, <<init>>, <<>>)
\* val n = init: parseVarDecl(true)
ValDecl(n, init) == [VarDecl(n, init) EXCEPT !.isConst = TRUE]
FnDecl(n, body) == Node("FnDecl", n, <<>>, body)
IfStmt(test, consequent) == Node("IfStmt", Null, <<test>>, consequent)
WithStmt(e, body) == Node("WithStmt", Null, <<e>>, body)
WhileStmt(test, body) == Node("WhileStmt", Null, <<test>>, body)
\* type n = V1(..) | V2(..): parseAlgebraicTypeOrExpr gives the variants
TypeAlias(n, variants) ==
  Node("TypeAlias", n, <<>>,
       [i \in 1..Len(variants) |-> Node("Variant", variants[i], <<>>, <<>>)])
\* case V(binding) => body, and  match subject { cases }
MatchCase(binding, body) == Node("MatchCase", binding, <<>>, body)
MatchStmt(subject, cases) == Node("MatchStmt", Null, <<subject>>, cases)

PropValues == {NumberLit, Identifier("x")}
Exprs ==
  {NumberLit, Identifier("f"), Identifier("x"), CallExpr(Identifier("f"), <<>>),
   TemplateLit(<<Identifier("x")>>)}
    \cup {ObjectLit(<<a, b>>) : a \in PropValues, b \in PropValues}
SimpleStmts ==
  {ExprStmt(e) : e \in Exprs} \cup {VarDecl(n, NumberLit) : n \in Names}
    \cup {FnDecl("f", <<>>)}
Blocks == SeqsUpTo(SimpleStmts, MaxBlockLen)
Stmts ==
  SimpleStmts \cup {IfStmt(NumberLit, b) : b \in Blocks}
    \cup {WithStmt(NumberLit, b) : b \in Blocks}
    \cup {FnDecl("f", b) : b \in Blocks \ {<<>>}}
Programs == SeqsUpTo(Stmts, MaxProgLen)

ScopeInit ==
  /\ scope \in {[ScopeIdle EXCEPT !.ast = p] : p \in Programs}
  /\ chan = ChanIdle /\ promises = <<>> /\ sent = <<>>
  /\ lexer = LexIdle /\ parser = ParserIdle /\ comp = CompIdle /\ match = MatchIdle /\ binexp = ExprIdle
  /\ fcache = FileIdle
  /\ select = SelectIdle
  /\ spawn = SpawnIdle
  /\ immut = ImmutIdle
  /\ esm = EsmIdle
  /\ ntlreq = RequireIdle
  /\ assign = AssignIdle
  /\ tunion = UnionIdle
  /\ sim = SimilarIdle
  /\ decor = DecorIdle
  /\ oplex = OpIdle
  /\ selch = SelChanIdle
  /\ unexp = GroupIdle

\* constructor: errors = [], root scope holding the builtins
NewAnalyzer == [scopes |-> <<BUILTINS>>, errors |-> <<>>]

\* push(kind) / pop(): pop keeps the root
SPush(st) == [st EXCEPT !.scopes = Append(@, {})]
SPop(st) == IF Len(st.scopes) > 1 THEN [st EXCEPT !.scopes = Front(@)] ELSE st

\* declare(name): into the current scope
SDeclare(st, n) == [st EXCEPT !.scopes[Len(st.scopes)] = @ \cup {n}]

\* Scope.has(name): the current scope only; Scope.lookup(name): the chain
SHas(st, n) == n \in st.scopes[Len(st.scopes)]
SLookup(st, n) == \E i \in 1..Len(st.scopes) : n \in st.scopes[i]

\* use(name): an 'undeclared' error unless the chain declares the name
SUse(st, n) ==
  IF n = Null \/ n \in {"_", "undefined"} \/ SLookup(st, n) THEN st
  ELSE LET isPrint == n \in {"print", "println"}
       IN [st EXCEPT !.errors = Append(@,
             [type |-> "undeclared", name |-> n,
              phase |-> IF isPrint THEN "runtime" ELSE "scope",
              code |-> IF isPrint THEN "UNDEF_FUNC" ELSE "UNDEF_VAR"])]

RECURSIVE HoistAll(_, _)
\* _hoistAll(stmts): declares the FnDecl statements of stmts by name
HoistAll(st, stmts) ==
  IF stmts = <<>> THEN st
  ELSE LET s == Head(stmts)
       IN HoistAll(IF s.type = "FnDecl" /\ s.name # Null THEN SDeclare(st, s.name) ELSE st,
                   Tail(stmts))

RECURSIVE VisitExpr(_, _)
RECURSIVE VisitExprs(_, _)
VisitExprs(st, es) ==
  IF es = <<>> THEN st ELSE VisitExprs(VisitExpr(st, Head(es)), Tail(es))

\* visitExpr(node).  In the ObjectLit case the loop over props ends with a
\* break after its first iteration, and control then runs into the ArrowFn
\* case, which pushes and pops a scope (the literal has no params and no body).
VisitExpr(st, e) ==
  IF e.type = "Identifier" THEN SUse(st, e.name)
  ELSE IF e.type \in {"CallExpr", "AssignExpr", "MemberExpr"} THEN VisitExprs(st, e.args)
  ELSE IF e.type = "ObjectLit"
    THEN SPop(SPush(IF e.args = <<>> THEN st ELSE VisitExpr(st, e.args[1])))
  ELSE st

RECURSIVE VisitStmt(_, _)
RECURSIVE VisitBlock(_, _)
RECURSIVE VisitCases(_, _)
\* visitBlock(node): for (s of node.body) visitStmt(s)
VisitBlock(st, stmts) ==
  IF stmts = <<>> THEN st ELSE VisitBlock(VisitStmt(st, Head(stmts)), Tail(stmts))

\* the loop of the MatchStmt case over node.cases: a 'match' scope with the
\* bindings of the variant pattern's fields, then the body
VisitCases(st, cases) ==
  IF cases = <<>> THEN st
  ELSE VisitCases(SPop(VisitBlock(SDeclare(SPush(st), Head(cases).name),
                                  Head(cases).body)),
                  Tail(cases))

\* _visitFn(node): declare the name unless the current scope has it, then the
\* body in a function scope, hoisted
VisitFn(st, s) ==
  LET d == IF s.name # Null /\ ~SHas(st, s.name) THEN SDeclare(st, s.name) ELSE st
      f == SPush(d)
  IN SPop(VisitBlock(HoistAll(f, s.body), s.body))

\* visitStmt(node); a WithStmt falls to the default case, which visits
\* node.expr only.  A VarDecl is declared with the kind 'const' or 'var'
\* after node.isConst; the kind is kept with the binding and nothing reads
\* it, so the scope keeps the names alone.
VisitStmt(st, s) ==
  IF s.type = "VarDecl" THEN SDeclare(VisitExprs(st, s.args), s.name)
  ELSE IF s.type = "FnDecl" THEN VisitFn(st, s)
  ELSE IF s.type = "ExprStmt" THEN VisitExprs(st, s.args)
  ELSE IF s.type = "ImportDecl" THEN SDeclare(st, s.name)
  ELSE IF s.type \in {"IfStmt", "WhileStmt"}
    THEN SPop(VisitBlock(SPush(VisitExprs(st, s.args)), s.body))
  ELSE IF s.type = "TypeAlias" THEN st
  ELSE IF s.type = "MatchStmt" THEN VisitCases(VisitExprs(st, s.args), s.body)
  ELSE VisitExprs(st, s.args)

\* analyze(ast): errors = []; _hoistAll(body); visitBlock(body); return errors
Analyze(ast) == VisitBlock(HoistAll(NewAnalyzer, ast), ast).errors

AnalyzeStep ==
  /\ ~scope.done
  /\ scope' = [scope EXCEPT !.errors = Analyze(scope.ast), !.done = TRUE]
  /\ UNCHANGED nonScopeVars

ScopeNext == AnalyzeStep

SpecScope == ScopeInit /\ [][ScopeNext]_vars

ErrorNames(errors) == {errors[i].name : i \in 1..Len(errors)}

\* the names declared by the statements of one block
DeclaredIn(stmts) ==
  {stmts[i].name : i \in {j \in 1..Len(stmts) : stmts[j].type \in {"VarDecl", "FnDecl"}}}

RECURSIVE ExprIdents(_)
\* the names of the identifier expressions in an expression
ExprIdents(e) ==
  IF e.type = "Identifier" THEN {e.name}
  ELSE UNION {ExprIdents(e.args[i]) : i \in 1..Len(e.args)}

RECURSIVE Unresolved(_, _)
\* the names of the identifier expressions under stmts that no enclosing
\* scope declares (env: the names declared by the scopes around stmts)
Unresolved(stmts, env) ==
  LET here == env \cup DeclaredIn(stmts)
  IN UNION {(UNION {ExprIdents(stmts[i].args[k]) : k \in 1..Len(stmts[i].args)} \ here)
              \cup Unresolved(stmts[i].body, here) : i \in 1..Len(stmts)}

\* C1: if scope analysis reports no errors, every identifier expression of the
\* AST (object-literal properties, template embeddings and with bodies
\* included) has an enclosing scope that declares its name.
C1_Claim ==
  (scope.done /\ scope.errors = <<>>) => Unresolved(scope.ast, BUILTINS) = {}

RECURSIVE StmtIdents(_)
\* the names of all identifier expressions under a list of statements
StmtIdents(stmts) ==
  UNION {UNION {ExprIdents(stmts[i].args[k]) : k \in 1..Len(stmts[i].args)}
           \cup StmtIdents(stmts[i].body) : i \in 1..Len(stmts)}

\* the statement f() stands in block b before a statement fn f() {} of b
CallBeforeFn(b) ==
  \E i, j \in 1..Len(b) :
    /\ i < j
    /\ b[i] = ExprStmt(CallExpr(Identifier("f"), <<>>))
    /\ b[j].type = "FnDecl" /\ b[j].name = "f"

\* a reference to n stands in block b before val n = ..., and b declares n
\* nowhere else
RefBeforeVal(b, n) ==
  \E i, j \in 1..Len(b) :
    /\ i < j
    /\ b[i] \in {ExprStmt(Identifier(n)), ExprStmt(CallExpr(Identifier(n), <<>>))}
    /\ b[j].type = "VarDecl" /\ b[j].name = n
    /\ \A m \in 1..Len(b) :
         (b[m].type \in {"VarDecl", "FnDecl"} /\ b[m].name = n)
           => (m > i /\ b[m].type = "VarDecl")

\* the statements of the program other than the k-th
OtherStmts(ast, k) == SubSeq(ast, 1, k - 1) \o SubSeq(ast, k + 1, Len(ast))

\* C9: in any one block (top level, function body, block of an if) a call f()
\* placed before fn f() {} of that block gets no undeclared diagnostic, and a
\* reference to a name placed before the val that declares it in that block,
\* with no outer declaration of the name, gets one.  (For a nested block the
\* program is taken to use f nowhere outside the block.)
C9_Claim ==
  scope.done =>
    /\ CallBeforeFn(scope.ast) => "f" \notin ErrorNames(scope.errors)
    /\ \A k \in 1..Len(scope.ast) :
         ( /\ scope.ast[k].type \in {"FnDecl", "IfStmt"}
           /\ CallBeforeFn(scope.ast[k].body)
           /\ "f" \notin StmtIdents(OtherStmts(scope.ast, k)) )
           => "f" \notin ErrorNames(scope.errors)
    /\ \A n \in Names :
         /\ RefBeforeVal(scope.ast, n) => n \in ErrorNames(scope.errors)
         /\ \A k \in 1..Len(scope.ast) :
              ( /\ scope.ast[k].type \in {"FnDecl", "IfStmt"}
                /\ RefBeforeVal(scope.ast[k].body, n)
                /\ n \notin DeclaredIn(scope.ast) )
                => n \in ErrorNames(scope.errors)

(***************************************************************************)
(* TYPE INFERER.  TypeInferer.check over the AST, on the top-level          *)
(* environment this.env of the inferer, which the constructor fills with    *)
(* the globals.  A Type is a record with its kind; its toString() is a      *)
(* sequence of pieces.  The state of one check is [env, errors, warnings,   *)
(* threw]; threw tells that a TypeError of the host ended the check.        *)
(***************************************************************************)
TAny == [kind |-> "any"]
Prim(n) == [kind |-> "primitive", name |-> n]
TArray(elem) == [kind |-> "array", elem |-> elem]
TFn(ret) == [kind |-> "fn", ret |-> ret]
TObj(fields) == [kind |-> "object", fields |-> fields]
TClass(n) == [kind |-> "class", name |-> n]

\* the types of ts in order, each kept at its first occurrence by printed form
RECURSIVE TypeStr(_)
RECURSIVE Dedupe(_, _)
Dedupe(ts, seen) ==
  IF ts = <<>> THEN seen
  ELSE IF \E k \in DOMAIN seen : TypeStr(seen[k]) = TypeStr(Head(ts)) THEN Dedupe(Tail(ts), seen)
  ELSE Dedupe(Tail(ts), Append(seen, Head(ts)))

RECURSIVE FlatTypes(_)
FlatTypes(ts) ==
  IF ts = <<>> THEN <<>>
  ELSE (IF Head(ts).kind = "union" THEN Head(ts).types ELSE <<Head(ts)>>)
         \o FlatTypes(Tail(ts))

\* Type.union without the test on deduped.length
TUnionKeepSingle(ts) ==
  [kind |-> "union", types |-> Dedupe(FlatTypes(ts), <<>>)]

\* Type.union(...ts): flattened, deduplicated, a single member is itself
TUnion(ts) ==
  LET deduped == Dedupe(FlatTypes(ts), <<>>)
  IN IF Len(deduped) = 1 THEN deduped[1]
     ELSE [kind |-> "union", types |-> deduped]
NoType == [kind |-> "none"]

RECURSIVE JoinTypes(_)
\* types.map(t => t.toString()).join(' | ')
JoinTypes(ts) ==
  IF ts = <<>> THEN <<>>
  ELSE IF Len(ts) = 1 THEN TypeStr(ts[1])
  ELSE TypeStr(Head(ts)) \o <<" | ">> \o JoinTypes(Tail(ts))

\* Type.toString()
TypeStr(t) ==
  IF t.kind = "primitive" THEN <<t.name>>
  ELSE IF t.kind = "class" THEN <<t.name>>
  ELSE IF t.kind = "union" THEN JoinTypes(t.types)
  ELSE IF t.kind = "array" THEN TypeStr(t.elem) \o <<"[]">>
  ELSE IF t.kind = "fn" THEN <<"() -> ">> \o TypeStr(t.ret)
  ELSE IF t.kind = "object" THEN <<"{ ... }">>
  ELSE IF t.kind \in {"null", "undefined", "unknown", "never"} THEN <<t.kind>>
  ELSE <<"any">>

GlobalTypeNames ==
  {"number", "string", "boolean", "void", "any", "never", "unknown", "null",
   "undefined", "bigint", "object", "symbol"}

\* GLOBAL_TYPES[name]
GLOBAL_TYPES(n) ==
  IF n = "any" THEN TAny
  ELSE IF n \in {"never", "unknown", "null", "undefined"} THEN [kind |-> n]
  ELSE Prim(n)

\* parseTypeStr(s) for an annotation string (no '[]' and no '|' occur here)
ParseTypeStr(s) ==
  IF s = Null \/ s = "any" THEN TAny
  ELSE IF s \in GlobalTypeNames THEN GLOBAL_TYPES(s)
  ELSE Prim(s)

\* parseTypeStr(t) called with a Type, as inferCall does with callee.ret: the
\* Type is truthy and is not 'any', GLOBAL_TYPES[t] looks up t.toString(),
\* and on a miss t.endsWith is not a function: a TypeError
ParseTypeStrOfType(t) ==
  LET key == TypeStr(t)
  IN IF Len(key) = 1 /\ key[1] \in GlobalTypeNames
       THEN [threw |-> FALSE, type |-> GLOBAL_TYPES(key[1])]
       ELSE [threw |-> TRUE, type |-> TAny]

EnvNames == {"console", "Object", "k", "_"}

\* _setupGlobals(): console.log returns void, Object.keys returns string[]
GlobalsEnv ==
  [n \in EnvNames |->
     IF n = "console" THEN TObj([log |-> TFn(Prim("void"))])
     ELSE IF n = "Object" THEN TObj([keys |-> TFn(TArray(Prim("string")))])
     ELSE NoType]

\* TypeEnv.getVar(name) / setVar(name, type) on the top-level environment
GetVar(env, n) == IF n \in DOMAIN env THEN env[n] ELSE NoType
SetVar(env, n, t) == [env EXCEPT ![n] = t]

\* isAssignable(from, to), in the order of its tests; literal types come
\* from enum members only and do not occur here
RECURSIVE IsAssignable(_, _)
IsAssignable(from, to) ==
  IF to.kind = "any" \/ from.kind = "any" THEN TRUE
  ELSE IF to.kind = "unknown" THEN TRUE
  ELSE IF from.kind = "never" THEN TRUE
  ELSE IF TypeStr(from) = TypeStr(to) THEN TRUE
  ELSE IF to.kind = "union"
    THEN \E k \in DOMAIN to.types : IsAssignable(from, to.types[k])
  ELSE IF from.kind = "union"
    THEN \A k \in DOMAIN from.types : IsAssignable(from.types[k], to)
  ELSE FALSE

TypeMismatch == [code |-> "TYPE_MISMATCH"]
MaybeUndef(n) == [code |-> "MAYBE_UNDEF", name |-> n]

RECURSIVE InferExpr(_, _, _)
\* inferExpr(node, env): the state after it and the type it returns
InferExpr(ti, e, strict) ==
  IF ti.threw THEN [ti |-> ti, type |-> TAny]
  ELSE IF e.type = "NumberLit" THEN [ti |-> ti, type |-> Prim("number")]
  ELSE IF e.type = "StringLit" THEN [ti |-> ti, type |-> Prim("string")]
  ELSE IF e.type = "Identifier"
    THEN LET t == GetVar(ti.env, e.name)
         IN [ti |-> IF t = NoType /\ strict
                      THEN [ti EXCEPT !.warnings = Append(@, MaybeUndef(e.name))]
                      ELSE ti,
             type |-> IF t = NoType THEN TAny ELSE t]
  ELSE IF e.type = "AssignExpr"
    THEN LET r == InferExpr(ti, e.args[2], strict)
             left == e.args[1]
             existing == GetVar(r.ti.env, left.name)
             bad == /\ ~r.ti.threw /\ left.type = "Identifier"
                    /\ existing # NoType /\ strict
                    /\ ~IsAssignable(r.type, existing) /\ existing.kind # "any"
         IN [ti |-> IF bad THEN [r.ti EXCEPT !.errors = Append(@, TypeMismatch)] ELSE r.ti,
             type |-> r.type]
  ELSE IF e.type = "CallExpr"
    THEN LET c == InferExpr(ti, e.args[1], strict)
         IN IF c.ti.threw \/ c.type.kind # "fn" THEN [ti |-> c.ti, type |-> TAny]
            ELSE LET p == ParseTypeStrOfType(c.type.ret)
                 IN [ti |-> [c.ti EXCEPT !.threw = p.threw], type |-> p.type]
  ELSE IF e.type = "MemberExpr"
    THEN LET o == InferExpr(ti, e.args[1], strict)
         IN [ti |-> o.ti,
             type |-> IF o.type.kind = "object" /\ e.name \in DOMAIN o.type.fields
                        THEN o.type.fields[e.name] ELSE TAny]
  ELSE [ti |-> ti, type |-> TAny]

\* inferVarDecl(node, env)
InferVarDecl(ti, node, strict) ==
  LET r == InferExpr(ti, node.args[1], strict)
      ann == ParseTypeStr(node.ann)
      bad == node.ann # Null /\ strict /\ ~IsAssignable(r.type, ann)
      t == IF node.ann # Null THEN ann ELSE r.type
      e == IF bad THEN [r.ti EXCEPT !.errors = Append(@, TypeMismatch)] ELSE r.ti
  IN IF r.ti.threw THEN r.ti ELSE [e EXCEPT !.env = SetVar(@, node.name, t)]

RECURSIVE InferStmts(_, _, _)
\* inferStmt(node, env) for VarDecl, ExprStmt, ImportDecl, IfStmt and
\* WhileStmt; an import sets only  defaultImport || namespace || '_' ; the
\* block of an if is inferred in env.child(), whose setVar leaves env as it
\* was; case 'WhileStmt' returns T_void and looks at nothing
InferStmt(ti, node, strict) ==
  IF ti.threw THEN ti
  ELSE IF node.type = "VarDecl" THEN InferVarDecl(ti, node, strict)
  ELSE IF node.type = "ExprStmt" THEN InferExpr(ti, node.args[1], strict).ti
  ELSE IF node.type = "ImportDecl" THEN [ti EXCEPT !.env = SetVar(@, "_", TAny)]
  ELSE IF node.type = "IfStmt"
    THEN LET t == InferExpr(ti, node.args[1], strict).ti
         IN [InferStmts(t, node.body, strict) EXCEPT !.env = t.env]
  ELSE IF node.type = "WhileStmt" THEN ti
  ELSE ti

\* infer(ast): for (stmt of ast.body) inferStmt(stmt, this.env)
InferStmts(ti, stmts, strict) ==
  IF stmts = <<>> THEN ti
  ELSE InferStmts(InferStmt(ti, Head(stmts), strict), Tail(stmts), strict)

\* check(ast, opts): strict = opts.strict; errors = []; warnings = [];
\* infer(ast) on this.env as the earlier checks left it
Check(env, ast, strict) ==
  InferStmts([env |-> env, errors |-> <<>>, warnings |-> <<>>, threw |-> FALSE],
             ast, strict)

(***************************************************************************)
(* DRIVER.  Compiler.compileSource, one action per stage.  A source is      *)
(* given by what the first two stages make of it: fault tells whether       *)
(* tokenize or parse throws, ast is the tree parse returns otherwise.  comp *)
(* holds the Compiler instance (typeEnv: the environment of its one         *)
(* TypeInferer) and the locals of the call in progress; comp.ran lists the  *)
(* stages the call has run.                                                 *)
(***************************************************************************)
MaxCompileLen == 2
CompileStmts ==
  {TypedVarDecl("k", "number", NumberLit), TypedVarDecl("k", "number", StringLit),
   TypedVarDecl("k", "any", StringLit),
   IfStmt(NumberLit, <<TypedVarDecl("k", "number", StringLit)>>),
   WhileStmt(NumberLit, <<TypedVarDecl("k", "number", StringLit)>>),
   ValDecl("k", NumberLit),
   ImportDecl("k"),
   ExprStmt(AssignExpr(Identifier("k"), StringLit)),
   ExprStmt(Identifier("k")),
   ExprStmt(CallExpr(MemberExpr(Identifier("Object"), "keys"), <<>>)),
   ExprStmt(CallExpr(MemberExpr(Identifier("console"), "log"), <<>>))}
Source(fault, ast) == [fault |-> fault, ast |-> ast]
\* type T = A(x) | B(y);  val k: T = A(42);  match k { case A(v) => {}  case B(e) => {} }
AlgebraicProgram ==
  <<TypeAlias("T", <<"A", "B">>),
    [TypedVarDecl("k", "T", CallExpr(Identifier("A"), <<NumberLit>>)) EXCEPT !.isConst = TRUE],
    MatchStmt(Identifier("k"), <<MatchCase("v", <<>>), MatchCase("e", <<>>)>>)>>
Sources ==
  {Source("lex", <<>>), Source("parse", <<>>), Source("none", AlgebraicProgram)}
    \cup {Source("none", p) : p \in SeqsUpTo(CompileStmts, MaxCompileLen)}
Options == [strict : BOOLEAN, typeCheck : BOOLEAN]

NullValue == [null |-> TRUE]
Some(v) == [null |-> FALSE, value |-> v]

\* new Compiler(): a fresh TypeInferer; no call in progress
NewCompiler ==
  [pc |-> "idle", typeEnv |-> GlobalsEnv, src |-> Source("none", <<>>),
   opts |-> [strict |-> FALSE, typeCheck |-> FALSE], ran |-> <<>>,
   scopeErrors |-> <<>>, typeErrors |-> <<>>, typeWarnings |-> <<>>,
   result |-> NullValue]

CompInit ==
  /\ comp = NewCompiler
  /\ chan = ChanIdle /\ promises = <<>> /\ sent = <<>>
  /\ lexer = LexIdle /\ parser = ParserIdle /\ scope = ScopeIdle
  /\ match = MatchIdle /\ binexp = ExprIdle
  /\ fcache = FileIdle
  /\ select = SelectIdle
  /\ spawn = SpawnIdle
  /\ immut = ImmutIdle
  /\ esm = EsmIdle
  /\ ntlreq = RequireIdle
  /\ assign = AssignIdle
  /\ tunion = UnionIdle
  /\ sim = SimilarIdle
  /\ decor = DecorIdle
  /\ oplex = OpIdle
  /\ selch = SelChanIdle
  /\ unexp = GroupIdle

\* _wrapErr(e, lines, filename): the diagnostic of a thrown lex or parse error
WrapErr(phase) == [phase |-> phase]

\* _fail(errors, start)
Fail(errors) ==
  [success |-> FALSE, code |-> NullValue, ast |-> NullValue, errors |-> errors,
   warnings |-> <<>>]

\* the success record: errors: [], warnings: typeWarnings
Success(code, ast, warnings) ==
  [success |-> TRUE, code |-> Some(code), ast |-> Some(ast), errors |-> <<>>,
   warnings |-> warnings]

\* A mutant of Aborts: errors never stop the pipeline.
AbortsNever(errors) == FALSE

\* if (scopeErrors.length) return _fail(...); if (typeErrors.length) return ...
Aborts(errors) == errors # <<>>

\* typeErrors.map(e => Object.assign({}, e, {..., phase: 'type'}))
TypePhase(errors) == [i \in 1..Len(errors) |-> [code |-> errors[i].code, phase |-> "type"]]

\* new CodeGen({target}).gen(ast), then the empty runtime of the tree shaker:
\* the output is a function of the tree alone
Gen(ast) == [js |-> ast]

\* compileSource(source, filename, opts) is entered
Begin(src, opts) ==
  /\ comp.pc = "idle"
  /\ comp' = [NewCompiler EXCEPT !.typeEnv = comp.typeEnv, !.pc = "lex",
                                 !.src = src, !.opts = opts]

CompBegin ==
  /\ \E src \in Sources, opts \in Options : Begin(src, opts)
  /\ UNCHANGED nonCompVars

\* try { tokens = tokenize(source, filename) } catch (e) { return _fail(...) }
LexStage ==
  /\ comp.pc = "lex"
  /\ comp' = IF comp.src.fault = "lex"
               THEN [comp EXCEPT !.ran = Append(@, "lex"), !.pc = "returned",
                                 !.result = Fail(<<WrapErr("lex")>>)]
               ELSE [comp EXCEPT !.ran = Append(@, "lex"), !.pc = "parse"]
  /\ UNCHANGED nonCompVars

\* try { ast = parse(tokens, filename) } catch (e) { return _fail(...) }
ParseStage ==
  /\ comp.pc = "parse"
  /\ comp' = IF comp.src.fault = "parse"
               THEN [comp EXCEPT !.ran = Append(@, "parse"), !.pc = "returned",
                                 !.result = Fail(<<WrapErr("parse")>>)]
               ELSE [comp EXCEPT !.ran = Append(@, "parse"), !.pc = "scope"]
  /\ UNCHANGED nonCompVars

\* scopeErrors = new ScopeAnalyzer(...).analyze(ast); abort if any; the type
\* check comes next only if (opts.strict || opts.typeCheck)
ScopeStage ==
  /\ comp.pc = "scope"
  /\ LET errs == Analyze(comp.src.ast)
     IN comp' = IF Aborts(errs)
                  THEN [comp EXCEPT !.ran = Append(@, "scope"), !.scopeErrors = errs,
                                    !.pc = "returned", !.result = Fail(errs)]
                  ELSE [comp EXCEPT !.ran = Append(@, "scope"), !.scopeErrors = errs,
                          !.pc = IF comp.opts.strict \/ comp.opts.typeCheck
                                   THEN "type" ELSE "gen"]
  /\ UNCHANGED nonCompVars

\* res = this.typeChecker.check(ast, {strict: opts.strict}), not inside a
\* try: a TypeError thrown by the check leaves compileSource
TypeStage ==
  /\ comp.pc = "type"
  /\ LET c == Check(comp.typeEnv, comp.src.ast, comp.opts.strict)
         after == [comp EXCEPT !.ran = Append(@, "type"), !.typeEnv = c.env]
     IN comp' = IF c.threw THEN [after EXCEPT !.pc = "threw"]
                ELSE IF Aborts(c.errors)
                  THEN [after EXCEPT !.typeErrors = c.errors, !.typeWarnings = c.warnings,
                                     !.pc = "returned",
                                     !.result = Fail(TypePhase(c.errors))]
                ELSE [after EXCEPT !.typeErrors = c.errors, !.typeWarnings = c.warnings,
                                   !.pc = "gen"]
  /\ UNCHANGED nonCompVars

\* code = new CodeGen(...).gen(ast); return the success record
GenStage ==
  /\ comp.pc = "gen"
  /\ comp' = [comp EXCEPT !.ran = Append(@, "gen"), !.pc = "returned",
                !.result = Success(Gen(comp.src.ast), comp.src.ast, comp.typeWarnings)]
  /\ UNCHANGED nonCompVars

\* the call is over: the caller has the result, or the exception; the locals
\* of the call are gone and the instance keeps its TypeInferer
CompReturn ==
  /\ comp.pc \in {"returned", "threw"}
  /\ comp' = [NewCompiler EXCEPT !.typeEnv = comp.typeEnv]
  /\ UNCHANGED nonCompVars

CompNext ==
  CompBegin \/ LexStage \/ ParseStage \/ ScopeStage \/ TypeStage \/ GenStage \/ CompReturn

SpecCompile == CompInit /\ [][CompNext]_vars

IsPrefix(a, b) == Len(a) <= Len(b) /\ a = SubSeq(b, 1, Len(a))

\* the stages in pipeline order; type inference only when requested
ExpectedStages(opts) ==
  IF opts.strict \/ opts.typeCheck
    THEN <<"lex", "parse", "scope", "type", "gen">>
    ELSE <<"lex", "parse", "scope", "gen">>

\* the stage has run in the current call and reported an error
ReportedError(stage) ==
  /\ \E i \in 1..Len(comp.ran) : comp.ran[i] = stage
  /\ \/ stage \in {"lex", "parse"} /\ comp.src.fault = stage
     \/ stage = "scope" /\ comp.scopeErrors # <<>>
     \/ stage = "type" /\ comp.typeErrors # <<>>

\* C2: the stages run in the order lex, parse, scope, type (only when strict
\* or typeCheck is set), gen; after a stage that reported an error no later
\* stage runs, so gen runs only with zero errors before it; warnings do not
\* stop the pipeline and are carried into the success result.
C2_Pipeline ==
  /\ IsPrefix(comp.ran, ExpectedStages(comp.opts))
  /\ \A i \in 1..Len(comp.ran) : ReportedError(comp.ran[i]) => i = Len(comp.ran)
  /\ (comp.ran # <<>> /\ Last(comp.ran) = "gen") =>
       \A st \in {"lex", "parse", "scope", "type"} : ~ReportedError(st)
  /\ comp.pc = "gen" => \A st \in {"lex", "parse", "scope", "type"} : ~ReportedError(st)
  /\ comp.pc = "returned" =>
       /\ comp.result.success <=> Last(comp.ran) = "gen"
       /\ comp.result.success => comp.result.warnings = comp.typeWarnings
       /\ ~comp.result.success => \E st \in {"lex", "parse", "scope", "type"} : ReportedError(st)

\* Witness of C2: a strict compile went through all five stages and returned
\* success carrying a warning of the type stage.
C2_Witness ==
  /\ comp.pc = "returned" /\ comp.result.success
  /\ comp.ran = <<"lex", "parse", "scope", "type", "gen">>
  /\ comp.result.warnings # <<>>

\* C3: compileSource always returns a result record and no exception escapes:
\* a failure has success = false, null code and ast and a non-empty errors
\* list, a success has an empty errors list.
C3_Claim ==
  /\ comp.pc # "threw"
  /\ comp.pc = "returned" =>
       IF comp.result.success
         THEN comp.result.errors = <<>> /\ ~comp.result.code.null
         ELSE /\ comp.result.errors # <<>>
              /\ comp.result.code.null /\ comp.result.ast.null

\* compileSource(src, opts) on a Compiler instance that has compiled nothing:
\* how the call ends, and the result it returns
FreshCompile(src, opts) ==
  IF src.fault # "none" THEN [outcome |-> "returned", result |-> Fail(<<WrapErr(src.fault)>>)]
  ELSE IF Aborts(Analyze(src.ast))
    THEN [outcome |-> "returned", result |-> Fail(Analyze(src.ast))]
  ELSE IF ~(opts.strict \/ opts.typeCheck)
    THEN [outcome |-> "returned", result |-> Success(Gen(src.ast), src.ast, <<>>)]
  ELSE LET c == Check(GlobalsEnv, src.ast, opts.strict)
       IN IF c.threw THEN [outcome |-> "threw", result |-> NullValue]
          ELSE IF Aborts(c.errors)
            THEN [outcome |-> "returned", result |-> Fail(TypePhase(c.errors))]
          ELSE [outcome |-> "returned",
                result |-> Success(Gen(src.ast), src.ast, c.warnings)]

\* C10: the errors, warnings and code compileSource returns for a source and
\* an option set do not depend on what the instance compiled before: they are
\* those a fresh instance returns.
C10_Claim ==
  comp.pc \in {"returned", "threw"} =>
    /\ comp.pc = FreshCompile(comp.src, comp.opts).outcome
    /\ comp.result = FreshCompile(comp.src, comp.opts).result

\* the type inferExpr gives a literal initializer
LiteralType(e) == IF e.type = "NumberLit" THEN Prim("number") ELSE Prim("string")

RECURSIVE MismatchedDecls(_)
\* the declarations under stmts, at any depth, that have an annotation and a
\* literal initializer whose type is not assignable to the annotated type
MismatchedDecls(stmts) ==
  UNION {(IF /\ stmts[i].type = "VarDecl" /\ stmts[i].ann # Null
             /\ stmts[i].args[1].type \in {"NumberLit", "StringLit"}
             /\ ~IsAssignable(LiteralType(stmts[i].args[1]), ParseTypeStr(stmts[i].ann))
            THEN {stmts[i]} ELSE {})
           \cup MismatchedDecls(stmts[i].body) : i \in 1..Len(stmts)}

\* C14: in strict mode a declaration, or a plain = assignment to a declared
\* variable, whose value is not assignable to the annotated type gives an
\* error with code TYPE_MISMATCH and the compile fails before code generation
\* (val x: number = "hi"); a declaration annotated any gives no such error
\* (val x: any = "hi").
C14_Claim ==
  (comp.pc = "returned" /\ comp.opts.strict /\ comp.scopeErrors = <<>>
     /\ comp.src.fault = "none") =>
    /\ MismatchedDecls(comp.src.ast) # {} =>
         /\ ~comp.result.success
         /\ \E i \in 1..Len(comp.result.errors) :
              comp.result.errors[i].code = "TYPE_MISMATCH"
         /\ \A i \in 1..Len(comp.ran) : comp.ran[i] # "gen"
    /\ comp.src.ast = <<TypedVarDecl("k", "number", NumberLit),
                        ExprStmt(AssignExpr(Identifier("k"), StringLit))>> =>
         /\ ~comp.result.success
         /\ \E i \in 1..Len(comp.result.errors) :
              comp.result.errors[i].code = "TYPE_MISMATCH"
    /\ comp.src.ast = <<TypedVarDecl("k", "any", StringLit)>> => comp.result.success

\* the program assigns, at top level, to a name that an earlier top-level
\* statement declared with val
AssignsToVal(ast) ==
  \E i, j \in 1..Len(ast) :
    /\ i < j
    /\ ast[i].type = "VarDecl" /\ ast[i].isConst
    /\ ast[j].type = "ExprStmt" /\ ast[j].args[1].type = "AssignExpr"
    /\ ast[j].args[1].args[1] = Identifier(ast[i].name)

\* C15: an assignment whose target is a name declared with val is reported
\* as a scope-phase error and the compile fails.
C15_Claim ==
  (comp.pc = "returned" /\ comp.src.fault = "none" /\ AssignsToVal(comp.src.ast)) =>
    /\ comp.scopeErrors # <<>>
    /\ ~comp.result.success

\* C16: after  type T = A(x) | B(y)  the variant names are usable as
\* constructors:  val k: T = A(42)  followed by a match on k compiles with no
\* undeclared-identifier diagnostic.
C16_Claim ==
  (comp.pc = "returned" /\ comp.src = Source("none", AlgebraicProgram)) =>
    /\ comp.scopeErrors = <<>>
    /\ comp.result.success

(***************************************************************************)
(* MATCH.  CodeGen.genMatch and the run of the JavaScript it emits.  An arm *)
(* is [isDefault, patterns, guard, body]: a pattern is a number literal or  *)
(* a binding, a guard [has, min] stands for  when n >= min  on the subject, *)
(* body is the arm's rank.  The emitted cascade is a list of clauses        *)
(* [kw, conds, guard, body]; match.executed lists the bodies run.           *)
(***************************************************************************)
MaxArms == 2
Subjects == {50, 87, 95}
LiteralPat(v) == [kind |-> "literal", value |-> v]
BindingPat == [kind |-> "binding", value |-> 0]
NoGuard == [has |-> FALSE, min |-> 0]
Guard(min) == [has |-> TRUE, min |-> min]
Arm(pat, guard) == [isDefault |-> FALSE, patterns |-> <<pat>>, guard |-> guard]
DefaultArm == [isDefault |-> TRUE, patterns |-> <<>>, guard |-> NoGuard]
CaseArms ==
  {Arm(pat, g) : pat \in {LiteralPat(87), LiteralPat(95), BindingPat},
                 g \in {NoGuard, Guard(80), Guard(90)}}
\* the arms of a match statement as parseMatch accepts them: case arms and
\* default arms in any order
ArmLists == SeqsUpTo(CaseArms \cup {DefaultArm}, MaxArms + 1)

MatchInit ==
  /\ match \in {[pc |-> "gen", arms |-> a, subject |-> v, clauses |-> <<>>,
                 idx |-> 1, executed |-> <<>>, evals |-> 0, threw |-> "none"] :
                   a \in ArmLists, v \in Subjects}
  /\ chan = ChanIdle /\ promises = <<>> /\ sent = <<>>
  /\ lexer = LexIdle /\ parser = ParserIdle /\ scope = ScopeIdle
  /\ comp = CompIdle /\ binexp = ExprIdle
  /\ fcache = FileIdle
  /\ select = SelectIdle
  /\ spawn = SpawnIdle
  /\ immut = ImmutIdle
  /\ esm = EsmIdle
  /\ ntlreq = RequireIdle
  /\ assign = AssignIdle
  /\ tunion = UnionIdle
  /\ sim = SimilarIdle
  /\ decor = DecorIdle
  /\ oplex = OpIdle
  /\ selch = SelChanIdle
  /\ unexp = GroupIdle

\* genMatch(node): a default arm becomes  else { body }  (a bare block when
\* first); a case arm becomes  if / else if (conds joined by ||) { bindings;
\* body }  and, when the arm has a guard, the body is wrapped in an inner
\* if (guard) { body }  inside that clause
GenMatch(arms) ==
  [i \in 1..Len(arms) |->
     IF arms[i].isDefault
       THEN [kw |-> IF i = 1 THEN "block" ELSE "else", conds |-> <<>>,
             guard |-> NoGuard, body |-> i]
       ELSE [kw |-> IF i = 1 THEN "if" ELSE "else if", conds |-> arms[i].patterns,
             guard |-> arms[i].guard, body |-> i]]

\* genMatchPattern(subj, pat): subj === value for a literal, true for a binding
PatternHolds(pat, v) == IF pat.kind = "literal" THEN v = pat.value ELSE TRUE

\* the guard expression  n >= min  evaluated with n bound to the subject
GuardHolds(g, v) == ~g.has \/ v >= g.min

\* the condition of a clause: its pattern predicates joined by ||
ClauseTaken(c, v) ==
  c.kw \in {"else", "block"} \/ \E k \in 1..Len(c.conds) : PatternHolds(c.conds[k], v)

\* the code generator emits the cascade
MatchGen ==
  /\ match.pc = "gen"
  /\ match' = [match EXCEPT !.clauses = GenMatch(match.arms), !.pc = "load"]
  /\ UNCHANGED nonMatchVars

\* the emitted cascade is JavaScript: an  else  or  else if  clause directly
\* follows an  if  or  else if  clause
CascadeParses(clauses) ==
  \A i \in 2..Len(clauses) :
    clauses[i].kw \in {"else", "else if"} /\ clauses[i - 1].kw \in {"if", "else if"}

\* the host rejects the emitted text: nothing of it runs
MatchSyntaxError ==
  /\ match.pc = "load" /\ ~CascadeParses(match.clauses)
  /\ match' = [match EXCEPT !.threw = "SyntaxError", !.pc = "done"]
  /\ UNCHANGED nonMatchVars

\* const _ntl_m<line> = <subject>;  at the head of the emitted block
MatchSubject ==
  /\ match.pc = "load" /\ CascadeParses(match.clauses)
  /\ match' = [match EXCEPT !.evals = @ + 1, !.pc = "run"]
  /\ UNCHANGED nonMatchVars

\* the emitted cascade runs: the condition of clause idx is false and the
\* next else-branch is tried
MatchSkip ==
  /\ match.pc = "run" /\ match.idx <= Len(match.clauses)
  /\ ~ClauseTaken(match.clauses[match.idx], match.subject)
  /\ match' = [match EXCEPT !.idx = @ + 1]
  /\ UNCHANGED nonMatchVars

\* the condition of clause idx is true: the clause is entered, its body runs
\* if the inner guard holds, and the cascade is left
MatchEnter ==
  /\ match.pc = "run" /\ match.idx <= Len(match.clauses)
  /\ LET c == match.clauses[match.idx]
     IN /\ ClauseTaken(c, match.subject)
        /\ match' = [match EXCEPT !.pc = "done",
                       !.executed = IF GuardHolds(c.guard, match.subject)
                                      THEN Append(@, c.body) ELSE @]
  /\ UNCHANGED nonMatchVars

\* no clause was entered
MatchFallOut ==
  /\ match.pc = "run" /\ match.idx > Len(match.clauses)
  /\ match' = [match EXCEPT !.pc = "done"]
  /\ UNCHANGED nonMatchVars

MatchNext ==
  \/ MatchGen
  \/ MatchSyntaxError
  \/ MatchSubject
  \/ MatchSkip
  \/ MatchEnter
  \/ MatchFallOut

SpecMatch == MatchInit /\ [][MatchNext]_vars

\* the arm the language selects: the first whose pattern matches and whose
\* guard, if any, is true; the default arm otherwise
ArmSelected(arm, v) ==
  arm.isDefault
    \/ ((\E k \in 1..Len(arm.patterns) : PatternHolds(arm.patterns[k], v))
          /\ GuardHolds(arm.guard, v))

FirstSelected(arms, v) ==
  LET sel == {i \in 1..Len(arms) : ArmSelected(arms[i], v)}
  IN IF sel = {} THEN <<>> ELSE <<CHOOSE i \in sel : \A j \in sel : i <= j>>

\* C5: a match runs the body of the first arm whose pattern matches and whose
\* guard is true; an arm whose pattern matches but whose guard is false is
\* skipped and the later arms and the default arm are still tried.
C5_Claim ==
  match.pc = "done" => match.executed = FirstSelected(match.arms, match.subject)

\* C28: each evaluation of a match evaluates the subject exactly once and
\* runs at most one arm's body, wherever a default arm is placed.
C28_Claim ==
  match.pc = "done" => match.evals = 1 /\ Len(match.executed) <= 1

(***************************************************************************)
(* BINARY EXPRESSIONS.  Parser.parseAdd / parseMul build the tree of an NTL *)
(* expression and CodeGen.genExpr / genExprParens emit its JavaScript text. *)
(* Texts are sequences of tokens: the emitted string separates operands and *)
(* operators with blanks and puts parentheses next to what they enclose.    *)
(***************************************************************************)
MaxDepth == 2
Operand == "a"
BinOps == {"-", "**"}

\* NTL expressions of nesting depth at most d: an operand, or two expressions
\* joined by an operator, written with or without parentheses around them
RECURSIVE ExprSources(_)
ExprSources(d) ==
  IF d = 0 THEN {<<Operand>>}
  ELSE LET sub == ExprSources(d - 1)
       IN {<<Operand>>}
            \cup {l \o <<op>> \o r : l \in sub, op \in BinOps, r \in sub}
            \cup {<<"(">> \o l \o <<op>> \o r \o <<")">> :
                    l \in sub, op \in BinOps, r \in sub}

BinaryExpr(left, op, right) ==
  [type |-> "BinaryExpr", left |-> left, op |-> op, right |-> right]

\* Parser.peek(): the token at pos, EOF past the end
PeekTok(toks, pos) == IF pos <= Len(toks) THEN toks[pos] ELSE EOF

\* op arg, a prefix operator applied to its operand
UnaryExpr(op, arg) == [type |-> "UnaryExpr", op |-> op, arg |-> arg]

RECURSIVE ParseAnd(_, _)
RECURSIVE ParseAndLoop(_, _, _)
RECURSIVE ParseAddLoop(_, _, _)
RECURSIVE ParseMulLoop(_, _, _)
RECURSIVE ParsePostfixLoop(_, _, _)
RECURSIVE ParseUnary(_, _)

\* parseExpr: nothing below parseAnd's level occurs in these sources, so
\* parseAssign, parseTernary and parseOr hand over to parseAnd
ParseExpr(toks, pos) == ParseAnd(toks, pos)

\* parsePrimary: ( expr ) returns the inner expression itself, no node records
\* the parentheses; an identifier is a leaf.  The result is [node, pos].
ParsePrimary(toks, pos) ==
  IF PeekTok(toks, pos) = "("
    THEN LET inner == ParseExpr(toks, pos + 1)
         IN [node |-> inner.node, pos |-> inner.pos + 1]
    ELSE [node |-> Identifier(toks[pos]), pos |-> pos + 1]

\* the while loop of parsePostfix: ( ) after an expression is a call of it
\* (here without arguments), . prop after an expression is a member access
ParsePostfixLoop(toks, expr, pos) ==
  IF PeekTok(toks, pos) = "("
    THEN ParsePostfixLoop(toks, CallExpr(expr, <<>>), pos + 2)
  ELSE IF PeekTok(toks, pos) = "."
    THEN ParsePostfixLoop(toks, MemberExpr(expr, toks[pos + 1]), pos + 2)
  ELSE [node |-> expr, pos |-> pos]

ParsePostfix(toks, pos) ==
  LET expr == ParsePrimary(toks, pos) IN ParsePostfixLoop(toks, expr.node, expr.pos)

\* parseUnary: a prefix operator takes parseUnary as its operand, anything
\* else is parsePostfix
ParseUnary(toks, pos) ==
  IF PeekTok(toks, pos) \in {"!", "~"}
    THEN LET arg == ParseUnary(toks, pos + 1)
         IN [node |-> UnaryExpr(toks[pos], arg.node), pos |-> arg.pos]
    ELSE ParsePostfix(toks, pos)

\* the while loop of parseMul: * / % and ** share one level, folded to the left
ParseMulLoop(toks, left, pos) ==
  IF PeekTok(toks, pos) \in {"*", "/", "%", "**"}
    THEN LET right == ParseUnary(toks, pos + 1)
         IN ParseMulLoop(toks, BinaryExpr(left, toks[pos], right.node), right.pos)
    ELSE [node |-> left, pos |-> pos]

ParseMul(toks, pos) ==
  LET left == ParseUnary(toks, pos) IN ParseMulLoop(toks, left.node, left.pos)

\* the while loop of parseAdd: + and - folded to the left
ParseAddLoop(toks, left, pos) ==
  IF PeekTok(toks, pos) \in {"+", "-"}
    THEN LET right == ParseMul(toks, pos + 1)
         IN ParseAddLoop(toks, BinaryExpr(left, toks[pos], right.node), right.pos)
    ELSE [node |-> left, pos |-> pos]

ParseAdd(toks, pos) ==
  LET left == ParseMul(toks, pos) IN ParseAddLoop(toks, left.node, left.pos)

\* the while loop of parseAnd: && folded to the left; the levels between
\* parseAnd and parseAdd have none of their operators in these sources
ParseAndLoop(toks, left, pos) ==
  IF PeekTok(toks, pos) = "&&"
    THEN LET right == ParseAdd(toks, pos + 1)
         IN ParseAndLoop(toks, BinaryExpr(left, toks[pos], right.node), right.pos)
    ELSE [node |-> left, pos |-> pos]

ParseAnd(toks, pos) ==
  LET left == ParseAdd(toks, pos) IN ParseAndLoop(toks, left.node, left.pos)

\* the PREC table of genExprParens (PREC[op] || 0)
PREC(op) ==
  CASE op = "&&" -> 4
    [] op \in {"+", "-"} -> 11
    [] op \in {"*", "/", "%"} -> 12
    [] op = "**" -> 13
    [] OTHER -> 0

RECURSIVE GenExpr(_)

\* genExprParens(node, parent): parentheses only around a binary child whose
\* precedence is strictly lower than the parent's
GenExprParens(node, parent) ==
  LET code == GenExpr(node)
  IN IF node.type = "BinaryExpr" /\ PREC(node.op) < PREC(parent.op)
       THEN <<"(">> \o code \o <<")">>
       ELSE code

\* genExpr: BinaryExpr is  left op right  through genExprParens; UnaryExpr is
\* the operator and genExpr of the operand; MemberExpr is genExpr of the
\* object, a dot and the property; CallExpr is genExpr of the callee and the
\* argument list; an identifier is its name
GenExpr(node) ==
  CASE node.type = "BinaryExpr" ->
         GenExprParens(node.left, node) \o <<node.op>> \o GenExprParens(node.right, node)
    [] node.type = "UnaryExpr" -> <<node.op>> \o GenExpr(node.arg)
    [] node.type = "MemberExpr" -> GenExpr(node.args[1]) \o <<".", node.name>>
    [] node.type = "CallExpr" -> GenExpr(node.args[1]) \o <<"(", ")">>
    [] OTHER -> <<node.name>>

ExprInit ==
  /\ binexp \in {[pc |-> "parse", source |-> s, ast |-> Identifier(Operand), js |-> <<>>] :
                 s \in ExprSources(MaxDepth)}
  /\ chan = ChanIdle /\ promises = <<>> /\ sent = <<>>
  /\ lexer = LexIdle /\ parser = ParserIdle /\ scope = ScopeIdle
  /\ comp = CompIdle /\ match = MatchIdle
  /\ fcache = FileIdle
  /\ select = SelectIdle
  /\ spawn = SpawnIdle
  /\ immut = ImmutIdle
  /\ esm = EsmIdle
  /\ ntlreq = RequireIdle
  /\ assign = AssignIdle
  /\ tunion = UnionIdle
  /\ sim = SimilarIdle
  /\ decor = DecorIdle
  /\ oplex = OpIdle
  /\ selch = SelChanIdle
  /\ unexp = GroupIdle

\* the parser builds the tree of the source expression
ExprParse ==
  /\ binexp.pc = "parse"
  /\ binexp' = [binexp EXCEPT !.ast = ParseExpr(binexp.source, 1).node, !.pc = "gen"]
  /\ UNCHANGED nonExprVars

\* the code generator emits the JavaScript text of the tree
ExprGen ==
  /\ binexp.pc = "gen"
  /\ binexp' = [binexp EXCEPT !.js = GenExpr(binexp.ast), !.pc = "done"]
  /\ UNCHANGED nonExprVars

ExprNext == ExprParse \/ ExprGen

SpecExpr == ExprInit /\ [][ExprNext]_vars

\* How JavaScript reads a text: && groups to the left, + and - bind tighter
\* and group to the left, ** binds tighter and groups to the right, a prefix
\* operator binds tighter than every binary operator, a call or a member
\* access applies to the primary expression just before it, parentheses
\* group what they enclose.
RECURSIVE JSAnd(_, _)
RECURSIVE JSAndLoop(_, _, _)
RECURSIVE JSAdditiveLoop(_, _, _)
RECURSIVE JSExponent(_, _)
RECURSIVE JSPostfixLoop(_, _, _)
RECURSIVE JSUnary(_, _)

JSPrimary(toks, pos) ==
  IF PeekTok(toks, pos) = "("
    THEN LET inner == JSAnd(toks, pos + 1)
         IN [node |-> inner.node, pos |-> inner.pos + 1]
    ELSE [node |-> Identifier(toks[pos]), pos |-> pos + 1]

JSPostfixLoop(toks, expr, pos) ==
  IF PeekTok(toks, pos) = "("
    THEN JSPostfixLoop(toks, CallExpr(expr, <<>>), pos + 2)
  ELSE IF PeekTok(toks, pos) = "."
    THEN JSPostfixLoop(toks, MemberExpr(expr, toks[pos + 1]), pos + 2)
  ELSE [node |-> expr, pos |-> pos]

JSUnary(toks, pos) ==
  IF PeekTok(toks, pos) \in {"!", "~"}
    THEN LET arg == JSUnary(toks, pos + 1)
         IN [node |-> UnaryExpr(toks[pos], arg.node), pos |-> arg.pos]
    ELSE LET expr == JSPrimary(toks, pos)
         IN JSPostfixLoop(toks, expr.node, expr.pos)

JSExponent(toks, pos) ==
  LET base == JSUnary(toks, pos)
  IN IF PeekTok(toks, base.pos) = "**"
       THEN LET right == JSExponent(toks, base.pos + 1)
            IN [node |-> BinaryExpr(base.node, "**", right.node), pos |-> right.pos]
       ELSE base

JSAdditiveLoop(toks, left, pos) ==
  IF PeekTok(toks, pos) \in {"+", "-"}
    THEN LET right == JSExponent(toks, pos + 1)
         IN JSAdditiveLoop(toks, BinaryExpr(left, toks[pos], right.node), right.pos)
    ELSE [node |-> left, pos |-> pos]

JSAdditive(toks, pos) ==
  LET left == JSExponent(toks, pos) IN JSAdditiveLoop(toks, left.node, left.pos)

JSAndLoop(toks, left, pos) ==
  IF PeekTok(toks, pos) = "&&"
    THEN LET right == JSAdditive(toks, pos + 1)
         IN JSAndLoop(toks, BinaryExpr(left, "&&", right.node), right.pos)
    ELSE [node |-> left, pos |-> pos]

JSAnd(toks, pos) ==
  LET left == JSAdditive(toks, pos) IN JSAndLoop(toks, left.node, left.pos)

ReadJS(toks) == JSAnd(toks, 1).node

\* C6: the emitted JavaScript text of a tree of binary expressions, read with
\* JavaScript precedence and associativity, groups the operands exactly as the
\* tree the parser built.
C6_Claim ==
  binexp.pc = "done" => ReadJS(binexp.js) = binexp.ast

(***************************************************************************)
(* INCREMENTAL COMPILATION.  Compiler.compileFile and its _cache for one    *)
(* file path.  The content of the file is a version number that every       *)
(* modification raises; the result of compiling version v is               *)
(* CompileResult(v).  The file belongs to the file system: another process  *)
(* may modify it at any moment, also between readFileSync and the moment    *)
(* the cache entry is stamped with Date.now().                              *)
(***************************************************************************)
MaxClock == 3
MaxWrites == 2
MaxCalls == 3

\* the targets a call may ask for; the output depends on the target
FileTargets == {"node", "esm"}
NoResult == [content |-> 0, target |-> "none"]
NoEntry == [has |-> FALSE, mtime |-> 0, from |-> NoResult]
\* compileSource(source, filePath, opts): the result is made from the source
\* read and from the options of the call
CompileResult(v, opts) == [content |-> v, target |-> opts.target]

FileInit ==
  /\ fcache = [pc |-> "idle", clock |-> 1, content |-> 0, mtime |-> 0,
               cache |-> NoEntry, source |-> 0, incremental |-> FALSE,
               target |-> "node", returned |-> NoResult, calls |-> 0, writes |-> 0]
  /\ chan = ChanIdle /\ promises = <<>> /\ sent = <<>>
  /\ lexer = LexIdle /\ parser = ParserIdle /\ scope = ScopeIdle
  /\ comp = CompIdle /\ match = MatchIdle /\ binexp = ExprIdle
  /\ select = SelectIdle
  /\ spawn = SpawnIdle
  /\ immut = ImmutIdle
  /\ esm = EsmIdle
  /\ ntlreq = RequireIdle
  /\ assign = AssignIdle
  /\ tunion = UnionIdle
  /\ sim = SimilarIdle
  /\ decor = DecorIdle
  /\ oplex = OpIdle
  /\ selch = SelChanIdle
  /\ unexp = GroupIdle

\* time passes
ClockTick ==
  /\ fcache.clock < MaxClock
  /\ fcache' = [fcache EXCEPT !.clock = @ + 1]
  /\ UNCHANGED nonFileVars

\* another process writes the file: new content, and a modification time
\* later than every time read so far
FileModify ==
  /\ fcache.clock < MaxClock /\ fcache.writes < MaxWrites
  /\ fcache' = [fcache EXCEPT !.clock = @ + 1, !.content = @ + 1,
                  !.mtime = fcache.clock + 1, !.writes = @ + 1]
  /\ UNCHANGED nonFileVars

\* if (cached.mtime >= mtime) return cached.result
CacheHit(fc, opts) ==
  opts.incremental /\ fc.cache.has /\ fc.cache.mtime >= fc.mtime

\* compileFile(filePath, opts), cache hit: the cached result is returned
CompileFileHit ==
  /\ fcache.pc = "idle" /\ fcache.calls < MaxCalls
  /\ CacheHit(fcache, [incremental |-> TRUE])
  /\ \E target \in FileTargets :
       fcache' = [fcache EXCEPT !.returned = fcache.cache.from, !.incremental = TRUE,
                    !.target = target, !.calls = @ + 1]
  /\ UNCHANGED nonFileVars

\* compileFile(filePath, opts), no hit: readFileSync, then compileSource runs
CompileFileRead ==
  /\ fcache.pc = "idle" /\ fcache.calls < MaxCalls
  /\ \E incremental \in BOOLEAN, target \in FileTargets :
       /\ ~CacheHit(fcache, [incremental |-> incremental])
       /\ fcache' = [fcache EXCEPT !.source = fcache.content, !.pc = "compiling",
                       !.incremental = incremental, !.target = target, !.calls = @ + 1]
  /\ UNCHANGED nonFileVars

\* compileSource has returned: _cache.set(filePath, {mtime: Date.now(), result})
\* when incremental, and the result is returned
CompileFileStore ==
  /\ fcache.pc = "compiling"
  /\ LET result == CompileResult(fcache.source, [target |-> fcache.target])
     IN fcache' = [fcache EXCEPT
                     !.cache = IF fcache.incremental
                                 THEN [has |-> TRUE, mtime |-> fcache.clock, from |-> result]
                                 ELSE @,
                     !.returned = result, !.pc = "idle"]
  /\ UNCHANGED nonFileVars

FileNext ==
  ClockTick \/ FileModify \/ CompileFileHit \/ CompileFileRead \/ CompileFileStore

SpecFile == FileInit /\ [][FileNext]_vars

\* C11: an incremental compileFile returns the cached result without running
\* the pipeline exactly when the file has not been modified since the content
\* that produced the cached result was read; after a modification, however it
\* interleaves with a compile in progress, the result returned is never one
\* computed from older content.
C11_Claim ==
  [][ (fcache.pc = "idle" /\ fcache'.calls = fcache.calls + 1 /\ fcache'.incremental) =>
        /\ (fcache'.pc = "idle") =
             (fcache.cache.has /\ fcache.cache.from.content = fcache.content)
        /\ (fcache'.pc = "idle" => fcache'.returned.content = fcache.content) ]_vars

\* C29: a result returned from the cache is one compiled with the options of
\* the current call, and a call without the incremental option neither
\* reads nor writes the cache.
C29_Claim ==
  [][ /\ (fcache.pc = "idle" /\ fcache'.calls = fcache.calls + 1 /\ fcache'.pc = "idle") =>
           fcache'.returned.target = fcache'.target
      /\ (fcache'.calls = fcache.calls + 1 /\ ~fcache'.incremental) =>
           fcache'.pc = "compiling"
      /\ (fcache.pc = "compiling" /\ fcache'.pc = "idle" /\ ~fcache.incremental) =>
           fcache'.cache = fcache.cache ]_vars

(***************************************************************************)
(* SELECT.  CodeGen.genSelect and the run of the async function it emits:   *)
(*   const { i, v } = await Promise.race([... .then(v => ({ i: k, v }))]);  *)
(*   if (i === k) { const <binding> = v; <body> }      for every case k     *)
(* A case is [binding]; its channel operation resolves with some value.     *)
(* select.ran lists the bodies run with the value their binding held.          *)
(***************************************************************************)
MaxCases == 2
Bindings == {Null, "v", "i", "msg"}
SelectValues == {"v1", "v2"}
SelectCases == UNION {[1..n -> [binding : Bindings]] : n \in 1..MaxCases}

SelectInit ==
  /\ select \in {[pc |-> "gen", cases |-> c, code |-> <<>>, i |-> 0, v |-> Null, idx |-> 1,
               ran |-> <<>>, threw |-> Null] : c \in SelectCases}
  /\ chan = ChanIdle /\ promises = <<>> /\ sent = <<>>
  /\ lexer = LexIdle /\ parser = ParserIdle /\ scope = ScopeIdle
  /\ comp = CompIdle /\ match = MatchIdle /\ binexp = ExprIdle
  /\ fcache = FileIdle
  /\ spawn = SpawnIdle
  /\ immut = ImmutIdle
  /\ esm = EsmIdle
  /\ ntlreq = RequireIdle
  /\ assign = AssignIdle
  /\ tunion = UnionIdle
  /\ sim = SimilarIdle
  /\ decor = DecorIdle
  /\ oplex = OpIdle
  /\ selch = SelChanIdle
  /\ unexp = GroupIdle

\* genSelect(node): the switch code, one  if (i === k)  per case; a case with
\* a binding declares  const <binding> = v  in the block before its body
GenSelect(cases) ==
  [k \in 1..Len(cases) |-> [i |-> k, decl |-> cases[k].binding]]

SelectGen ==
  /\ select.pc = "gen"
  /\ select' = [select EXCEPT !.code = GenSelect(select.cases), !.pc = "race"]
  /\ UNCHANGED nonSelectVars

\* await Promise.race([...]): the operation of some case k resolves first,
\* with value val;  i  and  v  of the function scope are set from it
SelectRace ==
  /\ select.pc = "race"
  /\ \E k \in 1..Len(select.code), val \in SelectValues :
       select' = [select EXCEPT !.i = k, !.v = val, !.pc = "switch"]
  /\ UNCHANGED nonSelectVars

\* the initializer  v  of  const <decl> = v : the name v resolves to the
\* innermost scope that declares it.  When <decl> is itself  v  that scope is
\* the block, where v is not initialized yet, and the read throws.
InitializerThrows(decl) == decl = "v"

\* the statement  if (i === k) { const <decl> = v; body }  of the switch code
SelectSwitchStep ==
  /\ select.pc = "switch" /\ select.idx <= Len(select.code)
  /\ LET c == select.code[select.idx]
     IN select' =
          IF select.i # c.i THEN [select EXCEPT !.idx = @ + 1]
          ELSE IF c.decl # Null /\ InitializerThrows(c.decl)
            THEN [select EXCEPT !.threw = "ReferenceError", !.pc = "done"]
          ELSE [select EXCEPT !.ran = Append(@, [case |-> c.i, value |-> select.v]),
                            !.idx = @ + 1]
  /\ UNCHANGED nonSelectVars

\* the end of the async function
SelectReturn ==
  /\ select.pc = "switch" /\ select.idx > Len(select.code)
  /\ select' = [select EXCEPT !.pc = "done"]
  /\ UNCHANGED nonSelectVars

SelectNext == SelectGen \/ SelectRace \/ SelectSwitchStep \/ SelectReturn

SpecSelect == SelectInit /\ [][SelectNext]_vars

\* C12: a select runs exactly one case body, that of the case whose channel
\* operation resolved first, with that case's binding set to the value the
\* operation produced; no other body runs.
C12_Claim ==
  select.pc = "done" => select.ran = <<[case |-> select.i, value |-> select.v]>>

(***************************************************************************)
(* SPAWN.  CodeGen.genStmt emits  Promise.resolve().then(() => E);  for     *)
(* spawn E.  The model runs the emitted body of an async function on the    *)
(* host's job loop: a synchronous run executes statements in order, a       *)
(* then() callback and the continuation of an await are jobs of the         *)
(* microtask queue, taken in FIFO order once the current run has ended.     *)
(* A statement is named by its position; spawn.log lists the expressions    *)
(* evaluated, in order.                                                     *)
(***************************************************************************)
MaxStmts == 3
StmtTypes == {"ExprStmt", "SpawnStmt", "AwaitStmt"}
SpawnPrograms == UNION {[1..n -> StmtTypes] : n \in 1..MaxStmts}

SpawnInit ==
  /\ spawn \in {[pc |-> "gen", prog |-> p, code |-> <<>>, ip |-> 1, running |-> FALSE,
                 queue |-> <<>>, log |-> <<>>] : p \in SpawnPrograms}
  /\ chan = ChanIdle /\ promises = <<>> /\ sent = <<>>
  /\ lexer = LexIdle /\ parser = ParserIdle /\ scope = ScopeIdle
  /\ comp = CompIdle /\ match = MatchIdle /\ binexp = ExprIdle
  /\ fcache = FileIdle /\ select = SelectIdle
  /\ immut = ImmutIdle
  /\ esm = EsmIdle
  /\ ntlreq = RequireIdle
  /\ assign = AssignIdle
  /\ tunion = UnionIdle
  /\ sim = SimilarIdle
  /\ decor = DecorIdle
  /\ oplex = OpIdle
  /\ selch = SelChanIdle
  /\ unexp = GroupIdle

\* the statement that evaluates E in place
GenStmtInline(type, e) == [op |-> "eval", e |-> e]

\* genStmt(node): SpawnStmt is  Promise.resolve().then(() => E); , an
\* expression statement is  E; , an await statement is  await E;
GenStmt(type, e) ==
  CASE type = "SpawnStmt" -> [op |-> "then", e |-> e]
    [] type = "AwaitStmt" -> [op |-> "await", e |-> e]
    [] OTHER -> [op |-> "eval", e |-> e]

\* the code generator emits the body, one statement per node
SpawnGen ==
  /\ spawn.pc = "gen"
  /\ spawn' = [spawn EXCEPT
                 !.code = [k \in 1..Len(spawn.prog) |-> GenStmt(spawn.prog[k], k)],
                 !.pc = "run", !.running = TRUE]
  /\ UNCHANGED nonSpawnVars

\* the current run executes the statement at ip:  E;  evaluates E,
\* then(() => E) queues the callback,  await E  evaluates E, queues the
\* continuation and ends the run
RunStmt ==
  /\ spawn.pc = "run" /\ spawn.running /\ spawn.ip <= Len(spawn.code)
  /\ LET c == spawn.code[spawn.ip]
     IN spawn' =
          CASE c.op = "eval" ->
                 [spawn EXCEPT !.log = Append(@, c.e), !.ip = @ + 1]
            [] c.op = "then" ->
                 [spawn EXCEPT !.queue = Append(@, [job |-> "callback", e |-> c.e]),
                               !.ip = @ + 1]
            [] c.op = "await" ->
                 [spawn EXCEPT !.log = Append(@, c.e),
                               !.queue = Append(@, [job |-> "resume", e |-> c.e]),
                               !.ip = @ + 1, !.running = FALSE]
  /\ UNCHANGED nonSpawnVars

\* the body has reached its end: the run ends
RunEnd ==
  /\ spawn.pc = "run" /\ spawn.running /\ spawn.ip > Len(spawn.code)
  /\ spawn' = [spawn EXCEPT !.running = FALSE]
  /\ UNCHANGED nonSpawnVars

\* no run is active: the host takes the first job of the microtask queue; a
\* callback evaluates its E, a continuation resumes the body
RunJob ==
  /\ spawn.pc = "run" /\ ~spawn.running /\ spawn.queue # <<>>
  /\ LET j == Head(spawn.queue)
     IN spawn' =
          IF j.job = "callback"
            THEN [spawn EXCEPT !.queue = Tail(@), !.log = Append(@, j.e)]
            ELSE [spawn EXCEPT !.queue = Tail(@), !.running = TRUE]
  /\ UNCHANGED nonSpawnVars

\* no run is active and the microtask queue is empty
RunIdle ==
  /\ spawn.pc = "run" /\ ~spawn.running /\ spawn.queue = <<>>
  /\ spawn' = [spawn EXCEPT !.pc = "done"]
  /\ UNCHANGED nonSpawnVars

SpawnNext == SpawnGen \/ RunStmt \/ RunEnd \/ RunJob \/ RunIdle

SpecSpawn == SpawnInit /\ [][SpawnNext]_vars

\* the positions of e in the log
LogPositions(e) == {k \in 1..Len(spawn.log) : spawn.log[k] = e}

\* the statements after p that belong to the same synchronous run as p: those
\* up to and including the next await, or up to the end of the body
SameRun(p) ==
  {q \in (p + 1)..Len(spawn.prog) :
     \A r \in (p + 1)..(q - 1) : spawn.prog[r] # "AwaitStmt"}

\* C13: spawn E is fire-and-forget: the statement completes without
\* evaluating E, the statements that follow it in the same synchronous run
\* execute before E starts, and E is evaluated exactly once afterwards, from
\* the microtask queue.
C13_Claim ==
  \A p \in 1..Len(spawn.prog) :
    spawn.prog[p] = "SpawnStmt" =>
      /\ Cardinality(LogPositions(p)) <= 1
      /\ (spawn.pc = "done" => Cardinality(LogPositions(p)) = 1)
      /\ (spawn.running /\ spawn.ip > p
             /\ (\A r \in (p + 1)..(spawn.ip - 1) : spawn.prog[r] # "AwaitStmt")
            => LogPositions(p) = {})
      /\ \A q \in SameRun(p) :
           spawn.prog[q] # "SpawnStmt" /\ LogPositions(p) # {} =>
             \E k \in LogPositions(q) : \A m \in LogPositions(p) : k < m

\* a spawn followed by a statement of the same run has been run to the end
C13_Witness ==
  /\ spawn.pc = "done"
  /\ \E p \in 1..Len(spawn.prog) :
       /\ spawn.prog[p] = "SpawnStmt"
       /\ \E q \in SameRun(p) : spawn.prog[q] = "ExprStmt"
       /\ LogPositions(p) # {}

(***************************************************************************)
(* IMMUTABLE.  CodeGen.genImmutable emits the declaration followed by       *)
(* Object.freeze(X).  A value is a tree: a leaf holding a number, or an     *)
(* object with two properties and the frozen flag of the host.  The model   *)
(* runs the emitted statements and then property writes  X.p = v  and       *)
(* X.p.q = v  by later code.                                                *)
(***************************************************************************)
MaxObjDepth == 2
MaxPropWrites == 2
PropKeys == {1, 2}
LeafNumbers == {0, 1}
WrittenNumbers == {7}

LeafValue(v) == [leaf |-> TRUE, val |-> v, frozen |-> FALSE, props |-> <<>>]
ObjectValue(a, b) == [leaf |-> FALSE, val |-> 0, frozen |-> FALSE, props |-> <<a, b>>]

\* object literals nested down to depth d
RECURSIVE ObjectValues(_)
ObjectValues(d) ==
  IF d = 0 THEN {}
  ELSE LET inner == {LeafValue(n) : n \in LeafNumbers} \cup ObjectValues(d - 1)
       IN {ObjectValue(a, b) : a \in inner, b \in inner}

PropPaths == UNION {[1..n -> PropKeys] : n \in 1..MaxObjDepth}

ImmutInit ==
  /\ immut \in {[pc |-> "gen", init |-> o, code |-> <<>>, value |-> LeafValue(0),
                 writes |-> 0] : o \in ObjectValues(MaxObjDepth)}
  /\ chan = ChanIdle /\ promises = <<>> /\ sent = <<>>
  /\ lexer = LexIdle /\ parser = ParserIdle /\ scope = ScopeIdle
  /\ comp = CompIdle /\ match = MatchIdle /\ binexp = ExprIdle
  /\ fcache = FileIdle /\ select = SelectIdle /\ spawn = SpawnIdle
  /\ esm = EsmIdle
  /\ ntlreq = RequireIdle
  /\ assign = AssignIdle
  /\ tunion = UnionIdle
  /\ sim = SimilarIdle
  /\ decor = DecorIdle
  /\ oplex = OpIdle
  /\ selch = SelChanIdle
  /\ unexp = GroupIdle

\* genImmutable(node): the declaration, then Object.freeze(name)
GenImmutable == <<"const X = init", "Object.freeze(X)">>

ImmutableGen ==
  /\ immut.pc = "gen"
  /\ immut' = [immut EXCEPT !.code = GenImmutable, !.pc = "declare"]
  /\ UNCHANGED nonImmutVars

\* const X = <initializer>: the object literal is built, nothing is frozen
ImmutableDeclare ==
  /\ immut.pc = "declare" /\ immut.code[1] = "const X = init"
  /\ immut' = [immut EXCEPT !.value = immut.init, !.pc = "freeze"]
  /\ UNCHANGED nonImmutVars

\* Object.freeze(o) of the host: o itself becomes frozen, the objects its
\* properties refer to are left as they are
ObjectFreeze(o) == [o EXCEPT !.frozen = TRUE]

ImmutableFreeze ==
  /\ immut.pc = "freeze" /\ immut.code[2] = "Object.freeze(X)"
  /\ immut' = [immut EXCEPT !.value = ObjectFreeze(@), !.pc = "declared"]
  /\ UNCHANGED nonImmutVars

\* the path names a property of an object inside o
RECURSIVE ValidPath(_, _)
ValidPath(o, path) ==
  IF o.leaf THEN FALSE
  ELSE IF Len(path) = 1 THEN TRUE
  ELSE ValidPath(o.props[path[1]], Tail(path))

\* the assignment  o.p1. ... .pn = v  of the host: the write changes the
\* object that holds pn unless that object is frozen
RECURSIVE PutValue(_, _, _)
PutValue(o, path, v) ==
  IF Len(path) = 1
    THEN IF o.frozen THEN o ELSE [o EXCEPT !.props[path[1]] = LeafValue(v)]
    ELSE [o EXCEPT !.props[path[1]] = PutValue(@, Tail(path), v)]

\* later code writes to a property of X, at any depth
PropWrite ==
  /\ immut.pc = "declared" /\ immut.writes < MaxPropWrites
  /\ \E path \in PropPaths, v \in WrittenNumbers :
       /\ ValidPath(immut.value, path)
       /\ immut' = [immut EXCEPT !.value = PutValue(@, path, v), !.writes = @ + 1]
  /\ UNCHANGED nonImmutVars

ImmutNext == ImmutableGen \/ ImmutableDeclare \/ ImmutableFreeze \/ PropWrite

SpecImmut == ImmutInit /\ [][ImmutNext]_vars

\* the value with the frozen flags left out
RECURSIVE Content(_)
Content(o) ==
  IF o.leaf THEN o
  ELSE [o EXCEPT !.frozen = FALSE,
                 !.props = [k \in DOMAIN o.props |-> Content(o.props[k])]]

\* C17: immutable val X = <initializer> deep-freezes its value: after the
\* declaration a write to a property of X, or of an object nested at any
\* depth inside X, does not change the value.
C17_Claim ==
  immut.pc = "declared" => Content(immut.value) = Content(immut.init)

(***************************************************************************)
(* ESM REWRITE.  For the targets browser, esm and deno, compileSource runs  *)
(* _toESM over the generated text: four String.replace calls in a row.      *)
(* The generated text is a sequence of statements, each named by the shape  *)
(* the regular expressions tell apart.                                      *)
(***************************************************************************)
MaxCodeLen == 3
Targets == {"node", "browser", "deno", "bun", "esm", "cjs"}
EsmTargets == {"browser", "esm", "deno"}

\* statements emitted by genImport, genExport and everything else
CodeLines == {"const x = require(m)", "const {x} = require(m)",
              "module.exports = e", "module.exports.x = x", "other"}
EsmSources == SeqsUpTo(CodeLines, MaxCodeLen)

EsmInit ==
  /\ esm \in {[pc |-> "generated", target |-> t, code |-> c, output |-> c] :
                t \in Targets, c \in EsmSources}
  /\ chan = ChanIdle /\ promises = <<>> /\ sent = <<>>
  /\ lexer = LexIdle /\ parser = ParserIdle /\ scope = ScopeIdle
  /\ comp = CompIdle /\ match = MatchIdle /\ binexp = ExprIdle
  /\ fcache = FileIdle /\ select = SelectIdle /\ spawn = SpawnIdle
  /\ immut = ImmutIdle
  /\ ntlreq = RequireIdle
  /\ assign = AssignIdle
  /\ tunion = UnionIdle
  /\ sim = SimilarIdle
  /\ decor = DecorIdle
  /\ oplex = OpIdle
  /\ selch = SelChanIdle
  /\ unexp = GroupIdle

\* String.prototype.replace with a /g pattern: every match is replaced
ReplaceAll(code, from, to) ==
  [k \in DOMAIN code |-> IF code[k] = from THEN to ELSE code[k]]

\* String.prototype.replace with a pattern that has no g flag: the first
\* match is replaced and the rest of the text is left as it is
ReplaceFirst(code, from, to) ==
  LET hits == {k \in DOMAIN code : code[k] = from}
  IN IF hits = {} THEN code
     ELSE LET first == CHOOSE k \in hits : \A j \in hits : k <= j
          IN [code EXCEPT ![first] = to]

\* compileSource: the test on opts.target
TargetIsEsm ==
  /\ esm.pc = "generated" /\ esm.target \in EsmTargets
  /\ esm' = [esm EXCEPT !.pc = "require"]
  /\ UNCHANGED nonEsmVars

TargetIsOther ==
  /\ esm.pc = "generated" /\ esm.target \notin EsmTargets
  /\ esm' = [esm EXCEPT !.pc = "done"]
  /\ UNCHANGED nonEsmVars

\* _toESM, first replace: const x = require("m")
ToESMRequire ==
  /\ esm.pc = "require"
  /\ esm' = [esm EXCEPT !.output = ReplaceAll(@, "const x = require(m)", "import x from m"),
                        !.pc = "destructure"]
  /\ UNCHANGED nonEsmVars

\* second replace: const { x } = require("m")
ToESMDestructure ==
  /\ esm.pc = "destructure"
  /\ esm' = [esm EXCEPT !.output = ReplaceAll(@, "const {x} = require(m)", "import {x} from m"),
                        !.pc = "default"]
  /\ UNCHANGED nonEsmVars

\* third replace: module.exports = e
ToESMDefault ==
  /\ esm.pc = "default"
  /\ esm' = [esm EXCEPT !.output = ReplaceFirst(@, "module.exports = e", "export default e"),
                        !.pc = "named"]
  /\ UNCHANGED nonEsmVars

\* fourth replace: module.exports.x = x
ToESMNamed ==
  /\ esm.pc = "named"
  /\ esm' = [esm EXCEPT !.output = ReplaceFirst(@, "module.exports.x = x", "export const x = x"),
                        !.pc = "done"]
  /\ UNCHANGED nonEsmVars

EsmNext ==
  \/ TargetIsEsm
  \/ TargetIsOther
  \/ ToESMRequire
  \/ ToESMDestructure
  \/ ToESMDefault
  \/ ToESMNamed

SpecEsm == EsmInit /\ [][EsmNext]_vars

CjsLines == {"const x = require(m)", "const {x} = require(m)",
             "module.exports = e", "module.exports.x = x"}

\* C18: for the ESM targets the output has no require or module.exports
\* statement left, whatever the number of exports; for the other targets the
\* output is the generated code.
C18_Claim ==
  esm.pc = "done" =>
    IF esm.target \in EsmTargets
      THEN \A k \in DOMAIN esm.output : esm.output[k] \notin CjsLines
      ELSE esm.output = esm.code

(***************************************************************************)
(* NTL MODULES.  require(ntl, a, b, ...) is parsed into an NTLRequire node  *)
(* holding the names, the scope analyzer declares each name, and            *)
(* generateNTLModuleImports maps each name to one require statement.        *)
(***************************************************************************)
MaxModules == 2

\* the keys of NTL_MODULES; every value is ./modules/<key>
NTL_MODULES == {"http", "fs", "crypto", "logger", "test", "ai", "game", "web", "obf"}
UnbundledNames == {"redis"}
ModuleNames == NTL_MODULES \cup UnbundledNames
ModuleLists == SeqsUpTo(ModuleNames, MaxModules)

RequireInit ==
  /\ ntlreq \in {[pc |-> "parse", args |-> ms, modules |-> <<>>, declared |-> {},
                  code |-> <<>>, errors |-> <<>>] : ms \in ModuleLists}
  /\ chan = ChanIdle /\ promises = <<>> /\ sent = <<>>
  /\ lexer = LexIdle /\ parser = ParserIdle /\ scope = ScopeIdle
  /\ comp = CompIdle /\ match = MatchIdle /\ binexp = ExprIdle
  /\ fcache = FileIdle /\ select = SelectIdle /\ spawn = SpawnIdle
  /\ immut = ImmutIdle /\ esm = EsmIdle
  /\ assign = AssignIdle
  /\ tunion = UnionIdle
  /\ sim = SimilarIdle
  /\ decor = DecorIdle
  /\ oplex = OpIdle
  /\ selch = SelChanIdle
  /\ unexp = GroupIdle

\* parseNTLRequire: every token up to the closing parenthesis is pushed as a
\* module name
ParseNTLRequire ==
  /\ ntlreq.pc = "parse"
  /\ ntlreq' = [ntlreq EXCEPT !.modules = ntlreq.args, !.pc = "scope"]
  /\ UNCHANGED nonRequireVars

\* ScopeAnalyzer.visitStmt, case NTLRequire: each name is declared as an import
VisitNTLRequire ==
  /\ ntlreq.pc = "scope"
  /\ ntlreq' = [ntlreq EXCEPT
       !.declared = {ntlreq.modules[k] : k \in DOMAIN ntlreq.modules},
       !.pc = "gen"]
  /\ UNCHANGED nonRequireVars

\* the statement generateNTLModuleImports emits for the name m
ModuleImport(m) ==
  IF m \in NTL_MODULES
    THEN [name |-> m, from |-> "base/modules/", module |-> m]
    ELSE [name |-> m, from |-> "ntl:", module |-> m]

\* generateNTLModuleImports: modules.map, one name per step.  Neither branch
\* of ModuleImport throws or records an error, and no earlier pass looks a
\* name up in NTL_MODULES, so errors stays as the parse left it.
GenNTLRequire ==
  /\ ntlreq.pc = "gen" /\ Len(ntlreq.code) < Len(ntlreq.modules)
  /\ ntlreq' = [ntlreq EXCEPT
       !.code = Append(@, ModuleImport(ntlreq.modules[Len(ntlreq.code) + 1]))]
  /\ UNCHANGED nonRequireVars

\* the map is complete: genNTLRequire returns the joined statements
GenNTLRequireDone ==
  /\ ntlreq.pc = "gen" /\ Len(ntlreq.code) = Len(ntlreq.modules)
  /\ ntlreq' = [ntlreq EXCEPT !.pc = "done"]
  /\ UNCHANGED nonRequireVars

RequireNext ==
  \/ ParseNTLRequire
  \/ VisitNTLRequire
  \/ GenNTLRequire
  \/ GenNTLRequireDone

SpecRequire == RequireInit /\ [][RequireNext]_vars

MaxUnion == 3
MemberNames == {"number", "string", "boolean", "never"}
Annotations == SeqsUpTo(MemberNames, MaxUnion) \ {<<>>}

AssignInit ==
  /\ assign \in {[pc |-> "parse", fromAnn |-> a, toAnn |-> b, from |-> TAny,
                  to |-> TAny, result |-> FALSE] : a \in Annotations, b \in Annotations}
  /\ chan = ChanIdle /\ promises = <<>> /\ sent = <<>>
  /\ lexer = LexIdle /\ parser = ParserIdle /\ scope = ScopeIdle
  /\ comp = CompIdle /\ match = MatchIdle /\ binexp = ExprIdle
  /\ fcache = FileIdle /\ select = SelectIdle /\ spawn = SpawnIdle
  /\ immut = ImmutIdle /\ esm = EsmIdle /\ ntlreq = RequireIdle
  /\ tunion = UnionIdle
  /\ sim = SimilarIdle
  /\ decor = DecorIdle
  /\ oplex = OpIdle
  /\ selch = SelChanIdle
  /\ unexp = GroupIdle

\* parseTypeStr(s) for  p1 | p2 | ... : one piece is looked up as it is
ParseUnionStr(pieces) ==
  IF Len(pieces) = 1 THEN ParseTypeStr(pieces[1])
  ELSE TUnion([k \in DOMAIN pieces |-> ParseTypeStr(pieces[k])])

AssignParse ==
  /\ assign.pc = "parse"
  /\ assign' = [assign EXCEPT !.from = ParseUnionStr(assign.fromAnn),
                              !.to = ParseUnionStr(assign.toAnn),
                              !.pc = "check"]
  /\ UNCHANGED nonAssignVars

AssignCheck ==
  /\ assign.pc = "check"
  /\ assign' = [assign EXCEPT !.result = IsAssignable(assign.from, assign.to),
                              !.pc = "done"]
  /\ UNCHANGED nonAssignVars

AssignNext == AssignParse \/ AssignCheck

SpecAssign == AssignInit /\ [][AssignNext]_vars

\* the members of a union, the type itself otherwise
Members(t) ==
  IF t.kind = "union" THEN {t.types[k] : k \in DOMAIN t.types} ELSE {t}

\* C20: isAssignable(from, to) holds exactly when every member of the source
\* is assignable to at least one member of the target.
C20_Claim ==
  assign.pc = "done" =>
    (assign.result =
       \A f \in Members(assign.from) : \E t \in Members(assign.to) : IsAssignable(f, t))

(***************************************************************************)
(* UNION TYPES.  Type.union is the only place that builds a union.  Three   *)
(* types a, b, c are built from lists of non-union types, then combined in  *)
(* both groupings and all at once.  A class and a primitive of the same     *)
(* name print alike.                                                        *)
(***************************************************************************)
MaxUnionArgs == 2
BaseTypes == {Prim("number"), Prim("Foo"), TClass("Foo")}
UnionArgLists == SeqsUpTo(BaseTypes, MaxUnionArgs) \ {<<>>}

UnionInit ==
  /\ tunion \in {[pc |-> "args", as |-> x, bs |-> y, cs |-> z,
                  a |-> TAny, b |-> TAny, c |-> TAny, ab |-> TAny, bc |-> TAny,
                  left |-> TAny, right |-> TAny, flat |-> TAny] :
                   x \in UnionArgLists, y \in UnionArgLists, z \in UnionArgLists}
  /\ chan = ChanIdle /\ promises = <<>> /\ sent = <<>>
  /\ lexer = LexIdle /\ parser = ParserIdle /\ scope = ScopeIdle
  /\ comp = CompIdle /\ match = MatchIdle /\ binexp = ExprIdle
  /\ fcache = FileIdle /\ select = SelectIdle /\ spawn = SpawnIdle
  /\ immut = ImmutIdle /\ esm = EsmIdle /\ ntlreq = RequireIdle
  /\ assign = AssignIdle
  /\ sim = SimilarIdle
  /\ decor = DecorIdle
  /\ oplex = OpIdle
  /\ selch = SelChanIdle
  /\ unexp = GroupIdle

\* Type.union(...ts) on the three lists
UnionArgs ==
  /\ tunion.pc = "args"
  /\ tunion' = [tunion EXCEPT !.a = TUnion(tunion.as), !.b = TUnion(tunion.bs),
                              !.c = TUnion(tunion.cs), !.pc = "inner"]
  /\ UNCHANGED nonUnionVars

\* Type.union(a, b) and Type.union(b, c)
UnionInner ==
  /\ tunion.pc = "inner"
  /\ tunion' = [tunion EXCEPT !.ab = TUnion(<<tunion.a, tunion.b>>),
                              !.bc = TUnion(<<tunion.b, tunion.c>>), !.pc = "outer"]
  /\ UNCHANGED nonUnionVars

\* Type.union(Type.union(a, b), c), Type.union(a, Type.union(b, c)) and
\* Type.union(a, b, c)
UnionOuter ==
  /\ tunion.pc = "outer"
  /\ tunion' = [tunion EXCEPT !.left = TUnion(<<tunion.ab, tunion.c>>),
                              !.right = TUnion(<<tunion.a, tunion.bc>>),
                              !.flat = TUnion(<<tunion.a, tunion.b, tunion.c>>),
                              !.pc = "done"]
  /\ UNCHANGED nonUnionVars

UnionNext == UnionArgs \/ UnionInner \/ UnionOuter

SpecUnion == UnionInit /\ [][UnionNext]_vars

\* no nested union, no two members printed alike, at least two members
NormalForm(t) ==
  t.kind = "union" =>
    /\ Len(t.types) >= 2
    /\ \A k \in DOMAIN t.types : t.types[k].kind # "union"
    /\ \A j, k \in DOMAIN t.types : TypeStr(t.types[j]) = TypeStr(t.types[k]) => j = k

\* the types Type.union has returned so far
UnionResults ==
  IF tunion.pc = "args" THEN {}
  ELSE {tunion.a, tunion.b, tunion.c} \cup
       (IF tunion.pc = "inner" THEN {}
        ELSE {tunion.ab, tunion.bc} \cup
             (IF tunion.pc = "outer" THEN {}
              ELSE {tunion.left, tunion.right, tunion.flat}))

\* C21: every type returned by Type.union is in normal form, and the two
\* groupings of a, b, c and the union of all three have the same members.
C21_Claim ==
  /\ \A t \in UnionResults : NormalForm(t)
  /\ tunion.pc = "done" =>
       /\ Members(tunion.left) = Members(tunion.right)
       /\ Members(tunion.left) = Members(tunion.flat)

\* a grouping where an argument is itself a union, two members print alike
\* and more than one member remains
C21_Witness ==
  /\ tunion.pc = "done"
  /\ tunion.bc.kind = "union" /\ tunion.ab.kind = "union"
  /\ \E j \in DOMAIN tunion.as, k \in DOMAIN tunion.cs :
       tunion.as[j] # tunion.cs[k] /\ TypeStr(tunion.as[j]) = TypeStr(tunion.cs[k])
  /\ tunion.left.kind = "union"

(***************************************************************************)
(* SIMILAR NAMES.  ScopeAnalyzer.use of a name with no binding calls        *)
(* findSimilar(name, this.current.allUserNames()).  A name is a sequence of *)
(* letters; the user names of the scope chain are a set, and the order in   *)
(* which they were declared (any order) decides ties of the stable sort.    *)
(***************************************************************************)
MaxNameLen == 3
MaxScopeNames == 4
LowerLetters == {"a", "b"}
LowerNames == SeqsUpTo(LowerLetters, MaxNameLen) \ {<<>>}
\* the names, and the shortest names written with a capital A first
Identifiers ==
  LowerNames \cup {<<"A">> \o n : n \in SeqsUpTo(LowerLetters, 1)}
ScopeSets == {S \in SUBSET Identifiers : Cardinality(S) <= MaxScopeNames}

SimilarInit ==
  /\ sim \in {[pc |-> "use", name |-> n, bindings |-> S, names |-> {}, scored |-> {},
                 similar |-> <<>>] :
                n \in Identifiers, S \in ScopeSets}
  /\ chan = ChanIdle /\ promises = <<>> /\ sent = <<>>
  /\ lexer = LexIdle /\ parser = ParserIdle /\ scope = ScopeIdle
  /\ comp = CompIdle /\ match = MatchIdle /\ binexp = ExprIdle
  /\ fcache = FileIdle /\ select = SelectIdle /\ spawn = SpawnIdle
  /\ immut = ImmutIdle /\ esm = EsmIdle /\ ntlreq = RequireIdle
  /\ assign = AssignIdle /\ tunion = UnionIdle
  /\ decor = DecorIdle
  /\ oplex = OpIdle
  /\ selch = SelChanIdle
  /\ unexp = GroupIdle

\* String.prototype.toLowerCase
ToLowerCase(n) == [k \in DOMAIN n |-> IF n[k] = "A" THEN "a" ELSE n[k]]

Min3(x, y, z) ==
  IF x <= y /\ x <= z THEN x ELSE IF y <= z THEN y ELSE z

\* levenshtein(a, b): the entry dp[i][j] of its table
RECURSIVE Dp(_, _, _, _)
Dp(a, b, i, j) ==
  IF i = 0 THEN j
  ELSE IF j = 0 THEN i
  ELSE IF a[i] = b[j] THEN Dp(a, b, i - 1, j - 1)
  ELSE 1 + Min3(Dp(a, b, i - 1, j), Dp(a, b, i, j - 1), Dp(a, b, i - 1, j - 1))

Levenshtein(a, b) == Dp(a, b, Len(a), Len(b))

\* s.slice(0, 4) and s.slice(-4)
SliceHead(s) == SubSeq(s, 1, IF Len(s) < 4 THEN Len(s) ELSE 4)
SliceTail(s) == SubSeq(s, IF Len(s) < 4 THEN 1 ELSE Len(s) - 3, Len(s))
StartsWith(s, p) == IsPrefix(p, s)
EndsWith(s, p) == Len(p) <= Len(s) /\ p = SubSeq(s, Len(s) - Len(p) + 1, Len(s))

\* the distance findSimilar scores n with
Score(name, n) == Levenshtein(ToLowerCase(name), ToLowerCase(n))

\* the test of findSimilar's map callback: n is kept with its distance
Scored(name, n) ==
  LET nl == ToLowerCase(name)
      nl2 == ToLowerCase(n)
      maxLen == IF Len(nl) >= Len(nl2) THEN Len(nl) ELSE Len(nl2)
      sharePrefix == Len(nl) >= 3 /\ Len(nl2) >= 3 /\
                       (StartsWith(nl, SliceHead(nl2)) \/ StartsWith(nl2, SliceHead(nl)))
      shareSuffix == Len(nl) >= 3 /\ Len(nl2) >= 3 /\
                       (EndsWith(nl, SliceTail(nl2)) \/ EndsWith(nl2, SliceTail(nl)))
      threshold == IF maxLen \div 2 > 3 THEN maxLen \div 2 ELSE 3
  IN Score(name, n) <= threshold \/ sharePrefix \/ shareSuffix

\* ScopeAnalyzer.use(name): a binding is found and nothing is reported
UseBound ==
  /\ sim.pc = "use" /\ sim.name \in sim.bindings
  /\ sim' = [sim EXCEPT !.pc = "done"]
  /\ UNCHANGED nonSimilarVars

\* no binding: allUserNames() keeps the names longer than one character
\* (no name here is a builtin or starts with _ntl)
AllUserNames ==
  /\ sim.pc = "use" /\ sim.name \notin sim.bindings
  /\ sim' = [sim EXCEPT !.names = {n \in sim.bindings : Len(n) > 1}, !.pc = "similar"]
  /\ UNCHANGED nonSimilarVars

\* findSimilar, filter and map: the names kept, each with its distance
FindSimilarScore ==
  /\ sim.pc = "similar"
  /\ sim' = [sim EXCEPT
       !.scored = {[n |-> n, dist |-> Score(sim.name, n)] :
                     n \in {m \in sim.names : m # sim.name /\ Len(m) > 1 /\ Scored(sim.name, m)}},
       !.pc = "sort"]
  /\ UNCHANGED nonSimilarVars

\* findSimilar, stable sort by distance, slice(0, 3) and map to the names
FindSimilarSort ==
  /\ sim.pc = "sort"
  /\ LET size == IF Cardinality(sim.scored) < 3 THEN Cardinality(sim.scored) ELSE 3
     IN \E s \in [1..size -> sim.scored] :
          /\ \A j, k \in 1..size : j < k => s[j] # s[k] /\ s[j].dist <= s[k].dist
          /\ \A x \in sim.scored : (\A k \in 1..size : s[k] # x) =>
               \A k \in 1..size : s[k].dist <= x.dist
          /\ sim' = [sim EXCEPT !.similar = [k \in 1..size |-> s[k].n], !.pc = "reported"]
  /\ UNCHANGED nonSimilarVars

SimilarNext == UseBound \/ AllUserNames \/ FindSimilarScore \/ FindSimilarSort

SpecSimilar == SimilarInit /\ [][SimilarNext]_vars

\* the names in scope within edit distance 2 of the referenced name
Near(name, bindings) == {n \in bindings : Levenshtein(name, n) <= 2}

\* C22: with exactly one name in scope within edit distance 2 of the
\* undeclared name, the similar-names list contains it; the list is sorted
\* by increasing distance and has at most three entries.
C22_Claim ==
  sim.pc = "reported" =>
    /\ Cardinality(Near(sim.name, sim.bindings)) = 1 =>
         \E k \in DOMAIN sim.similar : sim.similar[k] \in Near(sim.name, sim.bindings)
    /\ \A j, k \in DOMAIN sim.similar : j < k =>
         Levenshtein(sim.name, sim.similar[j]) <= Levenshtein(sim.name, sim.similar[k])
    /\ Len(sim.similar) <= 3

(***************************************************************************)
(* DECORATORS.  parseDecorators collects  @name  and  @name(args)  in       *)
(* source order, parseExprStatement parses the declaration that follows,    *)
(* and genDecorated emits the declaration and then one reassignment per     *)
(* decorator.  The emitted statements are then run in order.                *)
(***************************************************************************)
MaxDecorators == 3
DecoratorNames == {"log", "memo"}
\* dec.args: null for @name, [] for @name(), the expressions otherwise
DecoratorArgs == {"null", "[]", "[x]"}
Decorator(n, args) == [name |-> n, args |-> args]
DecoratorLists ==
  SeqsUpTo({Decorator(n, a) : n \in DecoratorNames, a \in DecoratorArgs}, MaxDecorators)
    \ {<<>>}
DecoratedTypes == {"FnDecl", "ClassDecl"}

DecorInit ==
  /\ decor \in {[pc |-> "decorators", src |-> ds, inner |-> t, pos |-> 1,
                 decorators |-> <<>>, code |-> <<>>, order |-> <<>>, ip |-> 1,
                 applied |-> <<>>] : ds \in DecoratorLists, t \in DecoratedTypes}
  /\ chan = ChanIdle /\ promises = <<>> /\ sent = <<>>
  /\ lexer = LexIdle /\ parser = ParserIdle /\ scope = ScopeIdle
  /\ comp = CompIdle /\ match = MatchIdle /\ binexp = ExprIdle
  /\ fcache = FileIdle /\ select = SelectIdle /\ spawn = SpawnIdle
  /\ immut = ImmutIdle /\ esm = EsmIdle /\ ntlreq = RequireIdle
  /\ assign = AssignIdle /\ tunion = UnionIdle /\ sim = SimilarIdle
  /\ oplex = OpIdle
  /\ selch = SelChanIdle
  /\ unexp = GroupIdle

\* parseDecorators, one turn of its loop: the next token is @
ParseDecorator ==
  /\ decor.pc = "decorators" /\ decor.pos <= Len(decor.src)
  /\ decor' = [decor EXCEPT !.decorators = Append(@, decor.src[decor.pos]), !.pos = @ + 1]
  /\ UNCHANGED nonDecorVars

\* the next token is fn or class: parseExprStatement parses the declaration
\* and returns the DecoratedExpr node
ParseDecorated ==
  /\ decor.pc = "decorators" /\ decor.pos > Len(decor.src)
  /\ decor' = [decor EXCEPT !.pc = "gen"]
  /\ UNCHANGED nonDecorVars

Reversed(s) == [k \in 1..Len(s) |-> s[Len(s) + 1 - k]]

\* the decorators in source order
DecoratorsInSourceOrder(decorators) == decorators

\* [...decorators].reverse()
DecoratorsToApply(decorators) == Reversed(decorators)

\* genDecorated: the code of the declaration, result starts with it
GenDecoratedInner ==
  /\ decor.pc = "gen"
  /\ decor' = [decor EXCEPT
       !.code = <<[stmt |-> decor.inner, dec |-> Decorator("", "null")]>>,
       !.order = DecoratorsToApply(decor.decorators),
       !.pc = "loop"]
  /\ UNCHANGED nonDecorVars

\* one turn of the for loop: result += name = dec.name(name, args);
GenDecoratedLine ==
  /\ decor.pc = "loop" /\ Len(decor.code) <= Len(decor.order)
  /\ decor' = [decor EXCEPT
       !.code = Append(@, [stmt |-> "Reassign", dec |-> decor.order[Len(decor.code)]])]
  /\ UNCHANGED nonDecorVars

GenDecoratedReturn ==
  /\ decor.pc = "loop" /\ Len(decor.code) > Len(decor.order)
  /\ decor' = [decor EXCEPT !.pc = "run"]
  /\ UNCHANGED nonDecorVars

\* the host runs the next emitted statement: the declaration binds name, a
\* reassignment calls the decorator on the current value of name
RunDecorated ==
  /\ decor.pc = "run" /\ decor.ip <= Len(decor.code)
  /\ decor' = [decor EXCEPT
       !.applied = IF decor.code[decor.ip].stmt = "Reassign"
                     THEN Append(@, decor.code[decor.ip].dec) ELSE @,
       !.ip = @ + 1]
  /\ UNCHANGED nonDecorVars

RunDecoratedEnd ==
  /\ decor.pc = "run" /\ decor.ip > Len(decor.code)
  /\ decor' = [decor EXCEPT !.pc = "done"]
  /\ UNCHANGED nonDecorVars

DecorNext ==
  \/ ParseDecorator
  \/ ParseDecorated
  \/ GenDecoratedInner
  \/ GenDecoratedLine
  \/ GenDecoratedReturn
  \/ RunDecorated
  \/ RunDecoratedEnd

SpecDecor == DecorInit /\ [][DecorNext]_vars

MaxOpSrcLen == 4
OpChars == {">", "=", "*", "a"}
OpSources == SeqsUpTo(OpChars, MaxOpSrcLen)

MULTI_CHAR_OPS ==
  << <<"=","=","=">>, <<"!","=","=">>, <<"<","<","=">>, <<">",">","=">>,
     <<"*","*","=">>, <<"&","&","=">>, <<"|","|","=">>, <<"?","?","=">>,
     <<"=","=">>, <<"!","=">>, <<"<","=">>, <<">","=">>,
     <<"&","&">>, <<"|","|">>, <<"?","?">>, <<"|",">">>,
     <<"=",">">>, <<"-",">">>, <<"+","+">>, <<"-","-">>,
     <<"+","=">>, <<"-","=">>, <<"*","=">>, <<"/","=">>, <<"%","=">>, <<"*","*","=">>,
     <<"<","<">>, <<">",">">>, <<">",">",">">>, <<"?",".">>, <<".",".",".">>,
     <<":",":">>, <<"*","*">>, <<"@">> >>

SINGLE_OPS ==
  {"+", "-", "*", "/", "%", "=", "<", ">", "!", "&", "|", "^", "~", "?", ":", "@", "#"}

OpInit ==
  /\ oplex \in {[pc |-> "tokenize", source |-> s, pos |-> 1, tokens |-> <<>>] :
                  s \in OpSources}
  /\ chan = ChanIdle /\ promises = <<>> /\ sent = <<>>
  /\ lexer = LexIdle /\ parser = ParserIdle /\ scope = ScopeIdle
  /\ comp = CompIdle /\ match = MatchIdle /\ binexp = ExprIdle
  /\ fcache = FileIdle /\ select = SelectIdle /\ spawn = SpawnIdle
  /\ immut = ImmutIdle /\ esm = EsmIdle /\ ntlreq = RequireIdle
  /\ assign = AssignIdle /\ tunion = UnionIdle /\ sim = SimilarIdle
  /\ decor = DecorIdle
  /\ selch = SelChanIdle
  /\ unexp = GroupIdle

\* the inner loop of readOp: this.peek(i) === op[i] for every i
OpMatches(source, pos, op) ==
  /\ pos + Len(op) - 1 <= Len(source)
  /\ \A i \in 1..Len(op) : source[pos + i - 1] = op[i]

\* readOp(): the first entry of the table that matches, else the single
\* character if it is in SINGLE_OPS, else null (the empty sequence here)
ReadOp(source, pos) ==
  LET hits == {k \in DOMAIN MULTI_CHAR_OPS : OpMatches(source, pos, MULTI_CHAR_OPS[k])}
  IN IF hits # {}
       THEN MULTI_CHAR_OPS[CHOOSE k \in hits : \A j \in hits : k <= j]
     ELSE IF source[pos] \in SINGLE_OPS THEN <<source[pos]>>
     ELSE <<>>

\* readIdent(): the letters from pos on
RECURSIVE IdentLen(_, _)
IdentLen(source, pos) ==
  IF pos <= Len(source) /\ source[pos] = "a" THEN 1 + IdentLen(source, pos + 1) ELSE 0

\* tokenize, one turn of the loop on a letter
TokenizeIdent ==
  /\ oplex.pc = "tokenize" /\ oplex.pos <= Len(oplex.source)
  /\ oplex.source[oplex.pos] = "a"
  /\ LET n == IdentLen(oplex.source, oplex.pos)
     IN oplex' = [oplex EXCEPT
          !.tokens = Append(@, [type |-> "IDENTIFIER", at |-> oplex.pos,
                                value |-> SubSeq(oplex.source, oplex.pos, oplex.pos + n - 1)]),
          !.pos = @ + n]
  /\ UNCHANGED nonOpVars

\* one turn of the loop on any other character: the token of readOp
TokenizeOp ==
  /\ oplex.pc = "tokenize" /\ oplex.pos <= Len(oplex.source)
  /\ oplex.source[oplex.pos] # "a"
  /\ LET op == ReadOp(oplex.source, oplex.pos)
     IN oplex' = [oplex EXCEPT
          !.tokens = Append(@, [type |-> "OPERATOR", at |-> oplex.pos, value |-> op]),
          !.pos = @ + Len(op)]
  /\ UNCHANGED nonOpVars

\* the end of the source: the EOF token
TokenizeEnd ==
  /\ oplex.pc = "tokenize" /\ oplex.pos > Len(oplex.source)
  /\ oplex' = [oplex EXCEPT
       !.tokens = Append(@, [type |-> "EOF", at |-> oplex.pos, value |-> <<>>]),
       !.pc = "done"]
  /\ UNCHANGED nonOpVars

OpNext == TokenizeIdent \/ TokenizeOp \/ TokenizeEnd

SpecOps == OpInit /\ [][OpNext]_vars

\* the operators of the language
Operators ==
  {MULTI_CHAR_OPS[k] : k \in DOMAIN MULTI_CHAR_OPS} \cup {<<c>> : c \in SINGLE_OPS}

\* C24: every operator token is the longest operator that matches at its
\* position; the text >>> is the one token >>>.
C24_Claim ==
  \A k \in DOMAIN oplex.tokens :
    oplex.tokens[k].type = "OPERATOR" =>
      \A op \in Operators :
        OpMatches(oplex.source, oplex.tokens[k].at, op) => Len(op) <= Len(oplex.tokens[k].value)

(***************************************************************************)
(* SELECT ON CHANNELS.  The statement                                       *)
(*   select { case a = ch1.receive() => ...  case b = ch2.receive() => ... }*)
(* on two channels of the emitted kind.  Evaluating the array passed to     *)
(* Promise.race calls receive() on the channel of every case, in order and  *)
(* within one synchronous run; the race is won by the promise that resolved *)
(* first.  A value is the rank of the send that produced it; 0 stands for a *)
(* promise not resolved.                                                    *)
(***************************************************************************)
MaxSelSends == 3
MaxUserReceives == 2
SelChannels == {1, 2}

EmptyChannel == [queue |-> <<>>, listeners |-> <<>>]

SelChanInit ==
  /\ selch = [pc |-> "before", ch |-> [c \in SelChannels |-> EmptyChannel],
              sent |-> [c \in SelChannels |-> <<>>], nsent |-> 0,
              cases |-> [c \in SelChannels |-> 0], order |-> <<>>,
              win |-> 0, value |-> 0,
              received |-> [c \in SelChannels |-> <<>>], nreceived |-> 0]
  /\ chan = ChanIdle /\ promises = <<>> /\ sent = <<>>
  /\ lexer = LexIdle /\ parser = ParserIdle /\ scope = ScopeIdle
  /\ comp = CompIdle /\ match = MatchIdle /\ binexp = ExprIdle
  /\ fcache = FileIdle /\ select = SelectIdle /\ spawn = SpawnIdle
  /\ immut = ImmutIdle /\ esm = EsmIdle /\ ntlreq = RequireIdle
  /\ assign = AssignIdle /\ tunion = UnionIdle /\ sim = SimilarIdle
  /\ decor = DecorIdle /\ oplex = OpIdle
  /\ unexp = GroupIdle

\* the resolve function r of a receive() promise is called with v: the
\* promise of a case of the select, or the k-th receive() of later code
Resolve(s, c, listener, v) ==
  IF listener.of = "select"
    THEN [s EXCEPT !.cases[listener.k] = v, !.order = Append(@, listener.k)]
    ELSE [s EXCEPT !.received[c][listener.k] = v]

\* ch.send(v) on channel c
SendOn(s, c, v) ==
  IF Len(s.ch[c].listeners) > 0
    THEN Resolve([s EXCEPT !.ch[c].listeners = Tail(@)], c, Head(s.ch[c].listeners), v)
    ELSE [s EXCEPT !.ch[c].queue = Append(@, v)]

\* ch.receive() on channel c, for the promise named by listener
ReceiveOn(s, c, listener) ==
  IF Len(s.ch[c].queue) > 0
    THEN Resolve([s EXCEPT !.ch[c].queue = Tail(@)], c, listener, Head(s.ch[c].queue))
    ELSE [s EXCEPT !.ch[c].listeners = Append(@, listener)]

\* some code sends the next value on a channel, before, during or after the
\* select
SelChanSend ==
  /\ selch.nsent < MaxSelSends
  /\ \E c \in SelChannels :
       LET v == selch.nsent + 1
       IN selch' = SendOn([selch EXCEPT !.nsent = v, !.sent[c] = Append(@, v)], c, v)
  /\ UNCHANGED nonSelChanVars

\* the array of Promise.race: ch1.receive() then ch2.receive()
SelectReceives ==
  /\ selch.pc = "before"
  /\ selch' = [ReceiveOn(ReceiveOn(selch, 1, [of |-> "select", k |-> 1]),
                         2, [of |-> "select", k |-> 2])
                 EXCEPT !.pc = "race"]
  /\ UNCHANGED nonSelChanVars

\* the await continues with the promise that resolved first; its case runs
SelectContinue ==
  /\ selch.pc = "race" /\ selch.order # <<>>
  /\ selch' = [selch EXCEPT !.win = selch.order[1],
                            !.value = selch.cases[selch.order[1]], !.pc = "after"]
  /\ UNCHANGED nonSelChanVars

\* after the select, code calls receive() on a channel
SelChanReceive ==
  /\ selch.pc = "after" /\ selch.nreceived < MaxUserReceives
  /\ \E c \in SelChannels :
       LET k == Len(selch.received[c]) + 1
       IN selch' = ReceiveOn([selch EXCEPT !.received[c] = Append(@, 0),
                                           !.nreceived = @ + 1],
                             c, [of |-> "user", k |-> k])
  /\ UNCHANGED nonSelChanVars

SelChanNext == SelChanSend \/ SelectReceives \/ SelectContinue \/ SelChanReceive

SpecSelChan == SelChanInit /\ [][SelChanNext]_vars

\* C27: the select takes a value only from the channel of the case it
\* chose: on the channel of the losing case the receives made after the
\* select get the values sent on it, from the first one on.
C27_Claim ==
  selch.pc = "after" =>
    \A c \in SelChannels \ {selch.win} :
      \A k \in DOMAIN selch.received[c] :
        k <= Len(selch.sent[c]) => selch.received[c][k] = selch.sent[c][k]

(***************************************************************************)
(* GROUPED OPERANDS.  An NTL expression whose prefix operators, member      *)
(* accesses and calls may have a parenthesized operand: Parser.parseUnary,  *)
(* parsePostfix and parsePrimary build the tree, CodeGen.genExpr emits the  *)
(* JavaScript text.  Texts are sequences of tokens as above.                *)
(***************************************************************************)
MaxNest == 2
GroupOps == {"&&", "+"}

\* NTL expressions of nesting depth at most d: an operand; a prefix operator,
\* a member access or a call applied to an expression written with or without
\* parentheses around it; two expressions joined by a binary operator
RECURSIVE GroupSources(_)
GroupSources(d) ==
  IF d = 0 THEN {<<Operand>>}
  ELSE LET sub == GroupSources(d - 1)
           grp == sub \cup {<<"(">> \o s \o <<")">> : s \in sub}
       IN {<<Operand>>}
            \cup {<<"!">> \o g : g \in grp}
            \cup {g \o <<".", "x">> : g \in grp}
            \cup {g \o <<"(", ")">> : g \in grp}
            \cup {l \o <<op>> \o r : l \in sub, op \in GroupOps, r \in sub}

GroupInit ==
  /\ unexp \in {[pc |-> "parse", source |-> s, ast |-> Identifier(Operand), js |-> <<>>] :
                s \in GroupSources(MaxNest)}
  /\ chan = ChanIdle /\ promises = <<>> /\ sent = <<>>
  /\ lexer = LexIdle /\ parser = ParserIdle /\ scope = ScopeIdle
  /\ comp = CompIdle /\ match = MatchIdle /\ binexp = ExprIdle
  /\ fcache = FileIdle
  /\ select = SelectIdle
  /\ spawn = SpawnIdle
  /\ immut = ImmutIdle
  /\ esm = EsmIdle
  /\ ntlreq = RequireIdle
  /\ assign = AssignIdle
  /\ tunion = UnionIdle
  /\ sim = SimilarIdle
  /\ decor = DecorIdle
  /\ oplex = OpIdle
  /\ selch = SelChanIdle

\* the parser builds the tree of the source expression
GroupParse ==
  /\ unexp.pc = "parse"
  /\ unexp' = [unexp EXCEPT !.ast = ParseExpr(unexp.source, 1).node, !.pc = "gen"]
  /\ UNCHANGED nonGroupVars

\* the code generator emits the JavaScript text of the tree
GroupGen ==
  /\ unexp.pc = "gen"
  /\ unexp' = [unexp EXCEPT !.js = GenExpr(unexp.ast), !.pc = "done"]
  /\ UNCHANGED nonGroupVars

GroupNext == GroupParse \/ GroupGen

SpecGroup == GroupInit /\ [][GroupNext]_vars

\* the operand of a prefix operator, the object of a member access or the
\* callee of a call, for a node that has one
OperandOf(node) ==
  IF node.type = "UnaryExpr" THEN node.arg ELSE node.args[1]

\* the tree applies a prefix operator, a member access or a call to a binary
\* expression: the source had parentheses around that operand
RECURSIVE HasGroupedOperand(_)
HasGroupedOperand(node) ==
  CASE node.type = "BinaryExpr" ->
         HasGroupedOperand(node.left) \/ HasGroupedOperand(node.right)
    [] node.type \in {"UnaryExpr", "MemberExpr", "CallExpr"} ->
         IF OperandOf(node).type = "BinaryExpr" THEN TRUE
         ELSE HasGroupedOperand(OperandOf(node))
    [] OTHER -> FALSE

\* C30: when the operand of a prefix operator, the object of a member access
\* or the callee of a call is a parenthesized binary expression, the emitted
\* JavaScript text, read with JavaScript precedence, applies the operator to
\* the whole operand: it groups the operands exactly as the tree the parser
\* built.
C30_Claim ==
  unexp.pc = "done" /\ HasGroupedOperand(unexp.ast) => ReadJS(unexp.js) = unexp.ast

(***************************************************************************)
(* CHANNELS.  channel() is emitted   as an inline object with _queue,       *)
(* _listeners, send and receive (CodeGen.genExpr, ChannelExpr).  A promise  *)
(* returned by receive() is identified by the index of the receive() call;  *)
(* promises[k] is the value that resolved it, or Pending.                   *)
(***************************************************************************)
MaxOps == 6
Values == {"v1", "v2"}
Pending == "pending"

ChanInit ==
  /\ chan = ChanIdle /\ promises = <<>> /\ sent = <<>>
  /\ lexer = LexIdle /\ parser = ParserIdle /\ scope = ScopeIdle /\ comp = CompIdle /\ match = MatchIdle /\ binexp = ExprIdle
  /\ fcache = FileIdle
  /\ select = SelectIdle
  /\ spawn = SpawnIdle
  /\ immut = ImmutIdle
  /\ esm = EsmIdle
  /\ ntlreq = RequireIdle
  /\ assign = AssignIdle
  /\ tunion = UnionIdle
  /\ sim = SimilarIdle
  /\ decor = DecorIdle
  /\ oplex = OpIdle
  /\ selch = SelChanIdle
  /\ unexp = GroupIdle

\* A mutant of QueueShift: the queue is read from the wrong end.
QueueShiftLast(q) == [value |-> Last(q), rest |-> Front(q)]

\* Array.prototype.shift on _queue / _listeners: the first element leaves.
QueueShift(q) == [value |-> Head(q), rest |-> Tail(q)]

\* send without the test on _listeners: the value is always queued
SendQueueOnly(v) ==
  /\ Len(sent) + Len(promises) < MaxOps
  /\ sent' = Append(sent, v)
  /\ chan' = [chan EXCEPT !.queue = Append(@, v)]
  /\ UNCHANGED promises

\* send(v) { if (this._listeners.length) this._listeners.shift()(v);
\*           else this._queue.push(v); }
Send(v) ==
  /\ Len(sent) + Len(promises) < MaxOps
  /\ sent' = Append(sent, v)
  /\ IF Len(chan.listeners) > 0
       THEN LET sh == QueueShift(chan.listeners)
            IN /\ promises' = [promises EXCEPT ![sh.value] = v]
               /\ chan' = [chan EXCEPT !.listeners = sh.rest]
       ELSE /\ chan' = [chan EXCEPT !.queue = Append(@, v)]
            /\ UNCHANGED promises

\* receive reading the head of _queue without removing it
ReceiveKeepQueue ==
  /\ Len(sent) + Len(promises) < MaxOps
  /\ LET k == Len(promises) + 1
     IN IF Len(chan.queue) > 0
          THEN /\ promises' = Append(promises, Head(chan.queue))
               /\ UNCHANGED chan
          ELSE /\ promises' = Append(promises, Pending)
               /\ chan' = [chan EXCEPT !.listeners = Append(@, k)]
  /\ UNCHANGED sent

\* receive() { return new Promise(r => { if (this._queue.length)
\*   r(this._queue.shift()); else this._listeners.push(r); }) }
Receive ==
  /\ Len(sent) + Len(promises) < MaxOps
  /\ LET k == Len(promises) + 1
     IN IF Len(chan.queue) > 0
          THEN LET sh == QueueShift(chan.queue)
               IN /\ promises' = Append(promises, sh.value)
                  /\ chan' = [chan EXCEPT !.queue = sh.rest]
          ELSE /\ promises' = Append(promises, Pending)
               /\ chan' = [chan EXCEPT !.listeners = Append(@, k)]
  /\ UNCHANGED sent

ChanSend == (\E v \in Values : Send(v)) /\ UNCHANGED nonChanVars
ChanReceive == Receive /\ UNCHANGED nonChanVars

ChanNext == ChanSend \/ ChanReceive

SpecChan == ChanInit /\ [][ChanNext]_vars

\* C4: on one channel the k-th receive() call is resolved by the k-th value
\* sent, whether the value waited in the queue or the receiver waited as a
\* listener; a receive is resolved exactly when its value has been sent.
C4_Fifo ==
  \A k \in 1..Len(promises) :
    /\ (k <= Len(sent)) => promises[k] = sent[k]
    /\ (k > Len(sent)) => promises[k] = Pending

\* Witness of C4: two different values were sent and each resolved the
\* receive() call of its own rank, while a third value still waits in the queue.
C4_Witness ==
  /\ Len(sent) >= 3 /\ Len(promises) >= 2
  /\ sent[1] # sent[2]
  /\ promises[1] = sent[1] /\ promises[2] = sent[2]
  /\ Len(chan.queue) > 0

\* C25: the queue of undelivered values and the list of pending receivers
\* are never both non-empty: the channel is empty, has-value or has-waiter.
C25_Claim == ~(Len(chan.queue) > 0 /\ Len(chan.listeners) > 0)

\* both a waiting receiver was served by a send and a queued value by a
\* receive, and a receiver waits again
C25_Witness ==
  /\ Len(chan.listeners) > 0 /\ chan.queue = <<>>
  /\ Len(sent) >= 2 /\ Len(promises) >= 3
  /\ promises[1] = sent[1] /\ promises[2] = sent[2]

\* the number of times v occurs in the sequence s
Occurrences(s, v) == Cardinality({k \in DOMAIN s : s[k] = v})

\* C26: no value is lost or duplicated.  Each value has resolved as many
\* receives as it was sent times, less the times it still waits in the
\* queue, so resolved receives plus queued values equal the sends; and a
\* resolved receive keeps its value.
C26_Claim ==
  /\ [](\A v \in Values :
         Occurrences(promises, v) + Occurrences(chan.queue, v) = Occurrences(sent, v))
  /\ [][\A k \in DOMAIN promises :
          promises[k] # Pending => k \in DOMAIN promises' /\ promises'[k] = promises[k]]_vars

\* the same value was sent twice, one copy resolved a receive and the other
\* waits in the queue
C26_Witness ==
  /\ Len(sent) >= 3 /\ sent[1] = sent[3]
  /\ Len(promises) >= 2 /\ promises[2] # Pending
  /\ Len(chan.queue) = 1

SpecLex == LexInit /\ [][LexNext]_vars

LexAtEnd == lexer.pos >= Len(lexer.source)

\* C8: the lexer terminates on every finite source with a token list ending in
\* one EOF token or with a lex-phase diagnostic; a string or template still
\* open when the input is exhausted is reported as 'unterminated'.  Stated on
\* the steps: every error is a lex diagnostic, a finished run ends with exactly
\* one EOF, and once the input is exhausted the next step of any string or
\* template loop raises the 'unterminated' lex error.
C8_Claim ==
  [][ /\ (lexer'.status = "error" => lexer'.err.phase = "lex")
      /\ (lexer'.status = "done" =>
            /\ Last(lexer'.tokens).type = "EOF"
            /\ \A i \in 1..(Len(lexer'.tokens) - 1) : lexer'.tokens[i].type # "EOF")
      /\ (lexer.mode # "top" /\ LexAtEnd =>
            /\ lexer'.status = "error"
            /\ lexer'.err.message \in {"Unterminated string",
                                       "Unterminated template literal"}) ]_vars

====
